---- MODULE Spec2Model ----
(***************************************************************************)
(* External process execution and streaming layer of pixel-cli:            *)
(*   EnhancedClaudeManager  (src/src/services/enhanced-claude-manager.ts)  *)
(*   ClaudeOutputStreamer   (src/src/services/claude-output-streamer.ts)   *)
(*   ClaudeCommandSanitizer (src/src/services/claude-command-sanitizer.ts) *)
(*                                                                         *)
(* One step of the model is one JavaScript macrotask run to completion:    *)
(* an API call made by a caller, or an event handler (child stdout/stderr  *)
(* data, child exit, child error, a timer) together with the promise       *)
(* continuations (microtasks) it releases.                                 *)
(***************************************************************************)
EXTENDS Integers, Sequences, FiniteSets, TLC

(* ------------------------------ bounds --------------------------------- *)

\* command ids the callers use
Ids == {"p1", "p2"}

\* chunks the children write to stdout and stderr, all together
MaxChunks == 2

\* the same, when several commands run side by side
MaxConcurrentChunks == 1

\* executeCommand and executeStreamingCommand calls made on one simulated
\* manager
MaxMockCommands == 2

\* the data streamed through a streamer that is used on its own
StreamData == {"a", "b"}

\* payloads of the chunks written, in the order they are written
Payloads == <<"a", "b", "c", "d">>

\* ClaudeCommand.timeout values the callers use; 0 stands for "not set"
Timeouts == {0, 100}

\* ClaudeCommand.command values the callers use
CommandNames == {<<"c", "l", "a", "u", "d", "e">>, <<>>}

\* exit codes a child chooses for itself
ExitCodes == {0, 1}

(* ------------------------- program constants --------------------------- *)

\* ClaudeConfig.commandTimeout, milliseconds
commandTimeout == 30000

\* ClaudeConfig.maxBufferSize, chunks kept per process buffer; scaled down
\* from 1000 so that a child's output can exceed it
maxBufferSize == 1

\* delay of the forced kill scheduled by killProcess, milliseconds
forceKillDelay == 5000

(* --------------------------- optional values --------------------------- *)

\* an absent optional (undefined / null)
None == <<>>

\* a present optional
Some(v) == <<v>>

(* ------------------------------ errors --------------------------------- *)

NoError == [kind |-> "none"]

ShutdownError == [kind |-> "shutdown", message |-> "Claude Manager is shutting down"]

SanitizationError(violations) ==
    [kind |-> "sanitization", message |-> "Command failed sanitization", violations |-> violations]

DuplicateIdError(id) ==
    [kind |-> "duplicate", message |-> "Process with ID already exists", id |-> id]

TimeoutError(timeout) ==
    [kind |-> "timeout", message |-> "Command timed out after", timeout |-> timeout]

\* the error the exit handler builds: exit code, signal if any, accumulated stderr
ProcessExitError(code, signal, errorOutput) ==
    [kind |-> "exit", message |-> "Claude process exited with code",
     code |-> code, signal |-> signal, stderr |-> errorOutput]

\* the error object the child's 'error' event carries
SpawnError == [kind |-> "spawn", message |-> "spawn ENOENT"]

KilledByUser == [kind |-> "killed", message |-> "Process killed by user"]

(* ------------------------------- strings ------------------------------- *)

\* a JavaScript string is the sequence of its characters, each a string of
\* length one; a control character is written by its name, and so is the
\* grave accent

UpperCase ==
    <<"A", "B", "C", "D", "E", "F", "G", "H", "I", "J", "K", "L", "M">> \o
    <<"N", "O", "P", "Q", "R", "S", "T", "U", "V", "W", "X", "Y", "Z">>

LowerCase ==
    <<"a", "b", "c", "d", "e", "f", "g", "h", "i", "j", "k", "l", "m">> \o
    <<"n", "o", "p", "q", "r", "s", "t", "u", "v", "w", "x", "y", "z">>

Digits == {"0", "1", "2", "3", "4", "5", "6", "7", "8", "9"}

\* what \s matches and String.prototype.trim removes
Whitespace == {" ", "\t", "\n", "\r"}

\* what . does not match
LineTerminators == {"\n", "\r"}

\* characters of [\x00-\x08\x0B\x0C\x0E-\x1F\x7F-\x9F]
ControlCharacters == {"NUL", "BEL", "ESC", "DEL"}

Range(s) == {s[k] : k \in 1..Len(s)}

\* String.prototype.includes
Includes(s, sub) ==
    \E i \in 1..(Len(s) + 1) :
        i + Len(sub) - 1 <= Len(s) /\ SubSeq(s, i, i + Len(sub) - 1) = sub

\* String.prototype.startsWith
StartsWith(s, prefix) ==
    Len(prefix) <= Len(s) /\ SubSeq(s, 1, Len(prefix)) = prefix

\* String.prototype.toLowerCase
ToLowerCase(s) ==
    [k \in 1..Len(s) |->
        IF s[k] \in Range(UpperCase)
        THEN LowerCase[CHOOSE n \in 1..Len(UpperCase) : UpperCase[n] = s[k]]
        ELSE s[k]]

RECURSIVE TrimStart(_)
TrimStart(s) ==
    IF s # <<>> /\ Head(s) \in Whitespace THEN TrimStart(Tail(s)) ELSE s

RECURSIVE TrimEnd(_)
TrimEnd(s) ==
    IF s # <<>> /\ s[Len(s)] \in Whitespace
    THEN TrimEnd(SubSeq(s, 1, Len(s) - 1)) ELSE s

\* String.prototype.trim
Trim(s) == TrimEnd(TrimStart(s))

\* RegExp.test for a character class: some character of s is in class
TestClass(s, class) == \E k \in 1..Len(s) : s[k] \in class

\* RegExp.test for [class]{n,}: n characters of the class in a row
TestRun(s, class, n) ==
    \E i \in 1..Len(s) :
        i + n - 1 <= Len(s) /\ \A k \in i..(i + n - 1) : s[k] \in class

\* a piece of a regular expression: literal text, or \s repeated min times or
\* more
Lit(t) == [kind |-> "lit", text |-> t, min |-> 0]

Spaces(min) == [kind |-> "spaces", text |-> <<>>, min |-> min]

RECURSIVE MatchFrom(_, _, _)
\* the pieces of pattern match s from position i on
MatchFrom(s, i, pattern) ==
    IF pattern = <<>> THEN TRUE
    ELSE LET piece == Head(pattern) IN
         IF piece.kind = "lit"
         THEN /\ i + Len(piece.text) - 1 <= Len(s)
              /\ SubSeq(s, i, i + Len(piece.text) - 1) = piece.text
              /\ MatchFrom(s, i + Len(piece.text), Tail(pattern))
         ELSE \E n \in piece.min..Len(s) :
                  /\ i + n - 1 <= Len(s)
                  /\ \A k \in i..(i + n - 1) : s[k] \in Whitespace
                  /\ MatchFrom(s, i + n, Tail(pattern))

\* RegExp.test
Test(s, pattern) == \E i \in 1..(Len(s) + 1) : MatchFrom(s, i, pattern)

\* RegExp.test of a pattern with the i flag, its literals in lower case
TestIgnoreCase(s, pattern) == Test(ToLowerCase(s), pattern)

\* c repeated n times
Repeat(c, n) == [k \in 1..n |-> c]

(* ----------------------------- sanitizer ------------------------------- *)

\* the options the constructor merges: defaultOptions
defaultOptions ==
    [allowFileSystemAccess |-> TRUE, allowNetworkAccess |-> TRUE,
     allowEnvironmentVariables |-> TRUE, allowShellMetacharacters |-> FALSE,
     maxCommandLength |-> 100, maxArgumentLength |-> 2000, maxArgumentCount |-> 50,
     customBlockedPatterns |-> <<>>]

\* the options sanitizeClaudeCommand passes, over those of createClaudeSanitizer
claudeOptions ==
    [defaultOptions EXCEPT !.allowFileSystemAccess = TRUE, !.allowNetworkAccess = TRUE,
                           !.allowEnvironmentVariables = TRUE,
                           !.allowShellMetacharacters = FALSE,
                           !.maxCommandLength = 100, !.maxArgumentLength = 2000,
                           !.maxArgumentCount = 50]

\* the options of createStrictSanitizer
strictOptions ==
    [defaultOptions EXCEPT !.allowFileSystemAccess = FALSE, !.allowNetworkAccess = FALSE,
                           !.allowEnvironmentVariables = FALSE,
                           !.allowShellMetacharacters = FALSE,
                           !.maxCommandLength = 50, !.maxArgumentLength = 100,
                           !.maxArgumentCount = 5]

\* const result = { isValid: true, ..., violations: [], warnings: [] }
NewResult == [isValid |-> TRUE, violations |-> <<>>, warnings |-> <<>>]

\* Violation without result.isValid = false
ViolationKeepsValid(result, message) ==
    [result EXCEPT !.violations = Append(@, message)]

\* result.violations.push(message); result.isValid = false
Violation(result, message) ==
    [result EXCEPT !.violations = Append(@, message), !.isValid = FALSE]

\* result.warnings.push(message)
Warning(result, message) == [result EXCEPT !.warnings = Append(@, message)]

\* !workingDirectory: undefined or the empty string
NoDirectory(workingDirectory) ==
    workingDirectory = None \/ workingDirectory = Some(<<>>)

validateCommandLength(command, result, options) ==
    LET trimmedCommand == Trim(command) IN
    IF Len(trimmedCommand) = 0 THEN Violation(result, <<"Empty command not allowed">>)
    ELSE IF Len(trimmedCommand) > options.maxCommandLength
         THEN Violation(result, <<"Command too long", options.maxCommandLength>>)
         ELSE result

\* /[;&|`$(){}[\]<>*~\\]/
shellMetaChars ==
    {";", "&", "|", "GRAVE", "$", "(", ")", "{", "}", "[", "]", "<", ">", "*", "~", "\\"}

RECURSIVE BlockedPatterns(_, _, _, _)
\* for (const pattern of options.customBlockedPatterns), from the k-th on
BlockedPatterns(k, trimmedCommand, result, options) ==
    IF k > Len(options.customBlockedPatterns) THEN result
    ELSE BlockedPatterns(k + 1, trimmedCommand,
             IF Test(trimmedCommand, options.customBlockedPatterns[k])
             THEN Violation(result, <<"Command matches blocked pattern", k>>)
             ELSE result,
             options)

validateCommandName(command, result, options) ==
    LET trimmedCommand == Trim(command)
        r1 == IF ~options.allowShellMetacharacters
                   /\ TestClass(trimmedCommand, shellMetaChars)
              THEN Violation(result, <<"Shell metacharacters detected in command">>)
              ELSE result
        r2 == IF Includes(trimmedCommand, <<".", ".">>)
              THEN Violation(r1, <<"Path traversal not allowed in command name">>)
              ELSE r1
    IN  BlockedPatterns(1, trimmedCommand, r2, options)

validateArgumentCount(args, result, options) ==
    IF Len(args) > options.maxArgumentCount
    THEN Violation(result, <<"Too many arguments", Len(args), options.maxArgumentCount>>)
    ELSE result

\* /[;&|`$(){}[\]<>*~]/
dangerousShellMetaChars ==
    {";", "&", "|", "GRAVE", "$", "(", ")", "{", "}", "[", "]", "<", ">", "*", "~"}

\* /https?:\/\//i
urlPattern(arg) ==
    \/ Includes(ToLowerCase(arg), <<"h", "t", "t", "p", ":", "/", "/">>)
    \/ Includes(ToLowerCase(arg), <<"h", "t", "t", "p", "s", ":", "/", "/">>)

\* /\$\{?[A-Z_][A-Z0-9_]*\}?/
envVarPattern(arg) ==
    \E i \in 1..Len(arg) :
        /\ arg[i] = "$"
        /\ \/ i + 1 <= Len(arg) /\ arg[i + 1] \in Range(UpperCase) \cup {"_"}
           \/ /\ i + 2 <= Len(arg)
              /\ arg[i + 1] = "{"
              /\ arg[i + 2] \in Range(UpperCase) \cup {"_"}

\* validateArguments with the length check arg.length >= options.maxArgumentLength
validateArgumentAtLimit(i, arg, result, options) ==
    IF Len(arg) >= options.maxArgumentLength
    THEN Violation(result, <<"Argument too long", i, Len(arg), options.maxArgumentLength>>)
    ELSE result

\* the body of the loop of validateArguments for args[i]; i counts from 0
validateArgument(i, arg, result, options) ==
    LET r1 == IF Len(arg) > options.maxArgumentLength
              THEN Violation(result, <<"Argument too long", i, Len(arg),
                                       options.maxArgumentLength>>)
              ELSE result
        r2 == IF ~options.allowShellMetacharacters
                   /\ TestClass(arg, dangerousShellMetaChars)
              THEN Violation(r1, <<"Shell metacharacters detected in argument", i, arg>>)
              ELSE r1
        r3 == IF ~options.allowNetworkAccess /\ urlPattern(arg)
              THEN Violation(r2, <<"Network access disabled: argument contains URLs", i>>)
              ELSE r2
        r4 == IF Includes(arg, <<".", ".">>)
              THEN Violation(r3, <<"Path traversal detected in argument", i, arg>>)
              ELSE r3
        r5 == IF ~options.allowEnvironmentVariables /\ envVarPattern(arg)
              THEN Violation(r4, <<"Environment variable reference in argument", i, arg>>)
              ELSE r4
    IN  IF TestClass(arg, ControlCharacters)
        THEN Violation(r5, <<"Binary or control characters in argument", i>>)
        ELSE r5

RECURSIVE validateArgumentsFrom(_, _, _, _)
\* for (let i = 0; i < args.length; i++), from the k-th argument on
validateArgumentsFrom(k, args, result, options) ==
    IF k > Len(args) THEN result
    ELSE validateArgumentsFrom(k + 1, args,
                               validateArgument(k - 1, args[k], result, options), options)

validateArguments(args, result, options) == validateArgumentsFrom(1, args, result, options)

isSensitiveDirectory(path) ==
    \E sensitivePath \in {<<"/", "e", "t", "c">>, <<"/", "p", "r", "o", "c">>,
                          <<"/", "s", "y", "s">>, <<"/", "r", "o", "o", "t">>,
                          <<"/", "b", "o", "o", "t">>, <<"/", "d", "e", "v">>,
                          <<"/", "v", "a", "r", "/", "l", "o", "g">>} :
        StartsWith(path, sensitivePath)

\* validateWorkingDirectory with a sensitive directory reported as a violation
validateWorkingDirectoryRejectsSensitive(workingDirectory, result, options) ==
    IF NoDirectory(workingDirectory) THEN result
    ELSE IF ~options.allowFileSystemAccess
    THEN Violation(result,
                   <<"File system access disabled but working directory specified">>)
    ELSE IF isSensitiveDirectory(workingDirectory[1])
    THEN Violation(result, <<"Working directory points to sensitive system location">>)
    ELSE result

validateWorkingDirectory(workingDirectory, result, options) ==
    IF NoDirectory(workingDirectory) THEN result
    ELSE IF ~options.allowFileSystemAccess
    THEN Violation(result,
                   <<"File system access disabled but working directory specified">>)
    ELSE LET r1 == IF Includes(workingDirectory[1], <<".", ".">>)
                   THEN Violation(result,
                                  <<"Path traversal not allowed in working directory">>)
                   ELSE result
         IN  IF isSensitiveDirectory(workingDirectory[1])
             THEN Warning(r1, <<"Working directory points to sensitive system location">>)
             ELSE r1

\* the command 'claude'
claude == <<"c", "l", "a", "u", "d", "e">>

\* const dangerousArgs
dangerousArgs ==
    {<<"-", "-", "e", "v", "a", "l">>, <<"-", "-", "e", "x", "e", "c", "u", "t", "e">>,
     <<"-", "-", "s", "h", "e", "l", "l">>, <<"-", "-", "r", "u", "n">>}

\* const fileOperationFlags
fileOperationFlags ==
    {<<"-", "-", "f", "i", "l", "e">>, <<"-", "f">>,
     <<"-", "-", "o", "u", "t", "p", "u", "t">>, <<"-", "o">>}

RECURSIVE dangerousArgsFrom(_, _, _)
\* the first for (const arg of args) of validateClaudeArguments, from the k-th
\* argument on
dangerousArgsFrom(k, args, result) ==
    IF k > Len(args) THEN result
    ELSE dangerousArgsFrom(k + 1, args,
             IF \E dangerous \in dangerousArgs : Includes(args[k], dangerous)
             THEN Warning(result, <<"Potentially dangerous Claude CLI argument", args[k]>>)
             ELSE result)

RECURSIVE fileOperationFlagsFrom(_, _, _)
\* the second for (const arg of args) of validateClaudeArguments, from the k-th
\* argument on
fileOperationFlagsFrom(k, args, result) ==
    IF k > Len(args) THEN result
    ELSE fileOperationFlagsFrom(k + 1, args,
             IF \E flag \in fileOperationFlags : StartsWith(args[k], flag)
             THEN Warning(result, <<"File operation detected in Claude argument", args[k]>>)
             ELSE result)

validateClaudeArguments(args, result) ==
    fileOperationFlagsFrom(1, args, dangerousArgsFrom(1, args, result))

validateDangerousOperations(command, args, workingDirectory, result) ==
    LET dangerousCommands == {<<"r", "m">>, <<"d", "e", "l">>, <<"d", "e", "l", "e", "t", "e">>,
                              <<"f", "o", "r", "m", "a", "t">>,
                              <<"m", "k", "f", "s">>, <<"d", "d">>}
    IN  IF ToLowerCase(command) \in dangerousCommands
        THEN IF \/ \E k \in 1..Len(args) :
                      \E path \in {<<"/", "e", "t", "c", "/">>, <<"/", "r", "o", "o", "t", "/">>,
                                   <<"/", "s", "y", "s", "/">>, <<"/", "b", "o", "o", "t", "/">>,
                                   <<"/", "d", "e", "v", "/">>} :
                          Includes(args[k], path)
                \/ ~NoDirectory(workingDirectory)
                       /\ isSensitiveDirectory(workingDirectory[1])
             THEN Violation(result,
                            <<"Attempted dangerous file operation on sensitive system directory">>)
             ELSE result
        ELSE result

\* [A-Za-z0-9_-]
KeyCharacters == Range(UpperCase) \cup Range(LowerCase) \cup Digits \cup {"_", "-"}

\* validateApiKeySafety with the exposed key reported as a warning
validateApiKeySafetyOfWarns(i, arg, result) ==
    IF Includes(arg, <<"s", "k", "-", "a", "n", "t", "-">>)
    THEN Warning(result, <<"Argument contains an exposed API key", i>>)
    ELSE result

\* the body of the loop of validateApiKeySafety
validateApiKeySafetyOf(i, arg, result) ==
    LET skAnt == <<"s", "k", "-", "a", "n", "t", "-">>
        r1 == IF \/ Includes(arg, skAnt)
                 \/ \E k \in 1..Len(arg) :
                        /\ StartsWith(SubSeq(arg, k, Len(arg)), skAnt)
                        /\ k + Len(skAnt) + 94 <= Len(arg)
                        /\ \A j \in 0..94 : arg[k + Len(skAnt) + j] \in KeyCharacters
              THEN Violation(result, <<"Argument contains an exposed API key", i>>)
              ELSE result
        r2 == IF /\ Includes(arg, <<"A", "N", "T", "H", "R", "O", "P", "I", "C", "_",
                                   "A", "P", "I", "_", "K", "E", "Y">>)
                 /\ ~StartsWith(arg, <<"$">>)
              THEN Violation(r1, <<"Argument may contain exposed API key", i>>)
              ELSE r1
    IN  IF /\ TestRun(arg, KeyCharacters, 32)
           /\ Includes(ToLowerCase(arg), <<"k", "e", "y">>)
        THEN Warning(r2, <<"Argument may contain sensitive key material", i>>)
        ELSE r2

RECURSIVE validateApiKeySafetyFrom(_, _, _)
\* for (let i = 0; i < args.length; i++), from the k-th argument on
validateApiKeySafetyFrom(k, args, result) ==
    IF k > Len(args) THEN result
    ELSE validateApiKeySafetyFrom(k + 1, args,
                                  validateApiKeySafetyOf(k - 1, args[k], result))

validateApiKeySafety(args, result) == validateApiKeySafetyFrom(1, args, result)

\* /(.)\1{49,}/ or /(.{3,})\1{9,}/
hasExcessiveRepetition(text) ==
    \/ \E i \in 1..Len(text) :
           /\ i + 49 <= Len(text)
           /\ text[i] \notin LineTerminators
           /\ \A k \in 1..49 : text[i + k] = text[i]
    \/ \E i \in 1..Len(text), n \in 3..Len(text) :
           /\ i + 10 * n - 1 <= Len(text)
           /\ \A k \in i..(i + n - 1) : text[k] \notin LineTerminators
           /\ \A k \in 1..9 :
                  SubSeq(text, i + k * n, i + (k + 1) * n - 1) = SubSeq(text, i, i + n - 1)

\* the injectionPatterns, all with the i flag
injectionPatterns ==
    <<  <<Lit(<<"i", "g", "n", "o", "r", "e">>), Spaces(1),
          Lit(<<"p", "r", "e", "v", "i", "o", "u", "s">>), Spaces(1),
          Lit(<<"i", "n", "s", "t", "r", "u", "c", "t", "i", "o", "n", "s">>)>>,
        <<Lit(<<"f", "o", "r", "g", "e", "t">>), Spaces(1),
          Lit(<<"e", "v", "e", "r", "y", "t", "h", "i", "n", "g">>)>>,
        <<Lit(<<"y", "o", "u">>), Spaces(1), Lit(<<"a", "r", "e">>), Spaces(1),
          Lit(<<"n", "o", "w">>)>>,
        <<Lit(<<"s", "y", "s", "t", "e", "m", ":">>), Spaces(0),
          Lit(<<"o", "v", "e", "r", "r", "i", "d", "e">>)>>,
        <<Lit(<<"\\", "n", "\\", "n", "#">>), Spaces(0), Lit(<<"n", "e", "w">>), Spaces(1),
          Lit(<<"r", "o", "l", "e">>)>>  >>

RECURSIVE InjectionWarnings(_, _, _, _)
\* for (const pattern of injectionPatterns), from the k-th on
InjectionWarnings(k, i, arg, result) ==
    IF k > Len(injectionPatterns) THEN result
    ELSE InjectionWarnings(k + 1, i, arg,
             IF TestIgnoreCase(arg, injectionPatterns[k])
             THEN Warning(result, <<"Potential prompt injection detected in argument", i>>)
             ELSE result)

\* the body of the loop of validatePromptSafety
validatePromptSafetyOf(i, arg, result) ==
    LET r1 == InjectionWarnings(1, i, arg, result) IN
    IF hasExcessiveRepetition(arg)
    THEN Warning(r1, <<"Excessive character repetition in argument (potential DoS)",
                       i>>)
    ELSE r1

RECURSIVE validatePromptSafetyFrom(_, _, _)
\* for (let i = 0; i < args.length; i++), from the k-th argument on
validatePromptSafetyFrom(k, args, result) ==
    IF k > Len(args) THEN result
    ELSE validatePromptSafetyFrom(k + 1, args,
                                  validatePromptSafetyOf(k - 1, args[k], result))

validatePromptSafety(args, result) == validatePromptSafetyFrom(1, args, result)

performClaudeSpecificValidations(command, args, workingDirectory, result) ==
    LET r1 == IF command = claude THEN validateClaudeArguments(args, result) ELSE result
        r2 == validateDangerousOperations(command, args, workingDirectory, r1)
        r3 == validateApiKeySafety(args, r2)
    IN  validatePromptSafety(args, r3)

\* sanitizeCommand with mergedOptions = { ...this.defaultOptions, ...options }
sanitizeCommand(command, args, workingDirectory, mergedOptions) ==
    LET r1 == validateCommandLength(command, NewResult, mergedOptions)
        r2 == validateCommandName(command, r1, mergedOptions)
        r3 == validateArgumentCount(args, r2, mergedOptions)
        r4 == validateArguments(args, r3, mergedOptions)
        r5 == validateWorkingDirectory(workingDirectory, r4, mergedOptions)
    IN  performClaudeSpecificValidations(command, args, workingDirectory, r5)

sanitizeClaudeCommand(command, args, workingDirectory) ==
    sanitizeCommand(command, args, workingDirectory, claudeOptions)

(* ------------------------------ commands ------------------------------- *)

\* the ClaudeCommands of the manager's callers: no args, no workingDirectory
Commands ==
    [id : Ids, command : CommandNames, args : {<<>>}, workingDirectory : {None},
     timeout : Timeouts]

\* const timeout = command.timeout || this.config.commandTimeout
EffectiveTimeout(command) ==
    IF command.timeout # 0 THEN command.timeout ELSE commandTimeout

(* --------------------------- process records --------------------------- *)

Terminal == {"completed", "failed", "killed"}

\* a value of Date.now(); no operation of the manager compares two of them
Timestamp == "Date.now()"

NewProcess(command, t) ==
    [id |-> command.id, command |-> command, status |-> "running", startTime |-> t,
     endTime |-> None, pid |-> None, exitCode |-> None, error |-> None]

\* executeCommand, after spawnClaudeProcess resolved
Completed(process, t) ==
    [process EXCEPT !.status = "completed", !.endTime = Some(t), !.exitCode = Some(0)]

\* executeCommand, after spawnClaudeProcess rejected
Failed(process, t, err) ==
    [process EXCEPT !.status = "failed", !.endTime = Some(t),
                    !.error = Some(err), !.exitCode = Some(1)]

\* killProcess
Killed(process, t) ==
    [process EXCEPT !.status = "killed", !.endTime = Some(t),
                    !.exitCode = Some(-1), !.error = Some(KilledByUser)]

(* --------------------------- child processes --------------------------- *)

\* a ChildProcess object: state "none" (not spawned), "alive", "failed" (the OS
\* could not start it; its 'error' event is pending), "exited", "errored";
\* stdout and stderr are the chunks it has written, exit its <<code, signal>>
NoChild ==
    [state |-> "none", killed |-> FALSE, signals |-> {}, stdout |-> <<>>, stderr |-> <<>>,
     exit |-> None]

SpawnedChild(spawnOk) ==
    [NoChild EXCEPT !.state = IF spawnOk THEN "alive" ELSE "failed"]

\* ChildProcess.kill(signal): delivers the signal and sets .killed when the
\* process handle exists; otherwise returns false and changes nothing
Kill(child, signal) ==
    IF child.state = "alive"
    THEN [child EXCEPT !.killed = TRUE, !.signals = @ \cup {signal}]
    ELSE child

RECURSIVE Join(_)
\* Array.prototype.join(''): the chunks concatenated in order
Join(chunks) ==
    IF chunks = <<>> THEN "" ELSE Head(chunks) \o Join(Tail(chunks))

(* ---------------------------- output streamer -------------------------- *)

\* the name of a per-process event, eventNamingPattern 'colon'
formatProcessEvent(eventType, id) == eventType \o ":" \o id

\* ClaudeStreamEvent.type
EventTypes == {"stdout", "stderr", "exit", "error"}

\* the names the streamer emits ClaudeStreamEvents under
EventNames ==
    {"output"} \cup EventTypes
        \cup {formatProcessEvent(t, i) : t \in {"output"} \cup EventTypes, i \in Ids}

\* a ClaudeOutputStreamer: activeStreams (keys of the map), buffers (the map),
\* listeners (number of handlers registered under each event name)
NewStreamer ==
    [activeStreams |-> {}, buffers |-> <<>>, listeners |-> [n \in EventNames |-> 0]]

isStreaming(s, id) == id \in s.activeStreams

startStreaming(s, id) ==
    IF id \in s.activeStreams THEN s
    ELSE [s EXCEPT !.activeStreams = @ \cup {id}, !.buffers = (id :> <<>>) @@ @]

stopStreaming(s, id) ==
    IF id \notin s.activeStreams THEN s
    ELSE [s EXCEPT !.activeStreams = @ \ {id}]

\* stopStreaming for every id in S
stopStreamingAll(s, S) == [s EXCEPT !.activeStreams = @ \ S]

\* Trimmed dropping the newest chunks instead of the oldest
TrimmedKeepsOldest(buffer) ==
    IF Len(buffer) > maxBufferSize THEN SubSeq(buffer, 1, maxBufferSize) ELSE buffer

\* buffer.push(data), then drop the oldest chunks beyond maxBufferSize
Trimmed(buffer) ==
    IF Len(buffer) > maxBufferSize
    THEN SubSeq(buffer, Len(buffer) - maxBufferSize + 1, Len(buffer))
    ELSE buffer

addToBuffer(s, id, data) ==
    IF id \notin DOMAIN s.buffers THEN s
    ELSE [s EXCEPT !.buffers = (id :> Trimmed(Append(s.buffers[id], data))) @@ @]

\* streamOutput without its early return for a stream that is not active
streamOutputUnchecked(s, id, data) == addToBuffer(s, id, data)

streamOutput(s, id, data) ==
    IF ~isStreaming(s, id) THEN s ELSE addToBuffer(s, id, data)

\* the state streamError leaves behind; see StreamErrorThrows for its exception
streamError(s, id, message) ==
    IF ~isStreaming(s, id) THEN s ELSE addToBuffer(s, id, message)

\* this.emit('error', streamEvent) throws when no listener is registered for
\* 'error'; nothing in the repository registers one on the manager's streamer
StreamErrorThrows(s, id) == isStreaming(s, id) /\ s.listeners["error"] = 0

\* streamProcessExit without its call of stopStreaming
streamProcessExitKeepsOpen(s, id, exitCode) == s

streamProcessExit(s, id, exitCode) ==
    IF ~isStreaming(s, id) THEN s ELSE stopStreaming(s, id)

getFullOutput(s, id) ==
    IF id \in DOMAIN s.buffers THEN Join(s.buffers[id]) ELSE ""

\* getBuffer(processId)
getBuffer(s, id) == IF id \in DOMAIN s.buffers THEN s.buffers[id] ELSE <<>>

\* clearBuffer(processId): this.buffers.set(processId, [])
clearBuffer(s, id) == [s EXCEPT !.buffers = (id :> <<>>) @@ @]

\* EventEmitter.on(name, handler)
on(s, name) == [s EXCEPT !.listeners[name] = @ + 1]

\* EventEmitter.off(name, handler): a handler that is not registered is ignored
off(s, name) == [s EXCEPT !.listeners[name] = IF @ > 0 THEN @ - 1 ELSE 0]

onProcessOutput(s, id) == on(s, formatProcessEvent("output", id))

offProcessOutput(s, id) == off(s, formatProcessEvent("output", id))

\* StreamerShutdown without removeAllListeners()
StreamerShutdownKeepsListeners(s) == [NewStreamer EXCEPT !.listeners = s.listeners]

\* StreamerShutdown without this.buffers.clear()
StreamerShutdownKeepsBuffers(s) == [NewStreamer EXCEPT !.buffers = s.buffers]

\* ClaudeOutputStreamer.shutdown
StreamerShutdown(s) == NewStreamer

(* ------------------------- events of the streamer ---------------------- *)

\* a ClaudeStreamEvent, without its timestamp
StreamEvent(type, data, exitCode) == [type |-> type, data |-> data, exitCode |-> exitCode]

\* the message of an exit event
ExitMessage == "Claude process exited with code"

\* one this.emit(name, event) after another, for the names in channels, with
\* the streamer in state s: the event, the names it was emitted under, the
\* number of handlers invoked under each name (every handler registered under
\* it, once), and the buffer of the id as those handlers find it
Emit(s, id, channels, event) ==
    [event |-> event, channels |-> channels,
     invoked |-> [n \in channels |-> s.listeners[n]],
     buffer |-> getBuffer(s, id)]

\* the number of handlers registered under name that were invoked with entry e
Invoked(e, name) == IF name \in e.channels THEN e.invoked[name] ELSE 0

\* streamOutputEmits without the 'output' and 'output:<id>' events
streamOutputEmitsTypeOnly(s, id, type, data) ==
    IF ~isStreaming(s, id) THEN <<>>
    ELSE <<Emit(addToBuffer(s, id, data), id, {type, formatProcessEvent(type, id)},
                StreamEvent(type, data, None))>>

\* streamOutputEmits with the events emitted before addToBuffer
streamOutputEmitsBeforeBuffer(s, id, type, data) ==
    IF ~isStreaming(s, id) THEN <<>>
    ELSE <<Emit(s, id, {"output", formatProcessEvent("output", id),
                        type, formatProcessEvent(type, id)},
                StreamEvent(type, data, None))>>

\* the events streamOutput emits, after addToBuffer: 'output', 'output:<id>',
\* type, 'type:<id>'
streamOutputEmits(s, id, type, data) ==
    IF ~isStreaming(s, id) THEN <<>>
    ELSE <<Emit(addToBuffer(s, id, data), id,
                {"output", formatProcessEvent("output", id),
                 type, formatProcessEvent(type, id)},
                StreamEvent(type, data, None))>>

\* the events streamError emits, after addToBuffer: 'error', which throws for
\* want of a listener, and otherwise 'error:<id>' as well
streamErrorEmits(s, id, message) ==
    IF ~isStreaming(s, id) THEN <<>>
    ELSE <<Emit(addToBuffer(s, id, message), id,
                IF StreamErrorThrows(s, id)
                THEN {"error"} ELSE {"error", formatProcessEvent("error", id)},
                StreamEvent("error", message, None))>>

\* the events streamProcessExit emits: 'exit', 'exit:<id>'
streamProcessExitEmits(s, id, exitCode) ==
    IF ~isStreaming(s, id) THEN <<>>
    ELSE <<Emit(s, id, {"exit", formatProcessEvent("exit", id)},
                StreamEvent("exit", ExitMessage, Some(exitCode)))>>

\* a lifecycle notification { processId, timestamp }, without its timestamp
Lifecycle(name, id) == [name |-> name, processId |-> id]

\* startStreaming: this.emit('stream-started', ...) unless already active
startStreamingEmits(s, id) ==
    IF id \in s.activeStreams THEN <<>> ELSE <<Lifecycle("stream-started", id)>>

\* stopStreaming without its early return for a stream that is not active
stopStreamingEmitsUnchecked(s, id) == <<Lifecycle("stream-stopped", id)>>

\* stopStreaming: this.emit('stream-stopped', ...) when the stream was active
stopStreamingEmits(s, id) ==
    IF id \notin s.activeStreams THEN <<>> ELSE <<Lifecycle("stream-stopped", id)>>

(* ------------------------------- state --------------------------------- *)

VARIABLES
    processes,        \* keys of EnhancedClaudeManager.processes
    claudeProcess,    \* the ClaudeProcess objects, by id
    childProcesses,   \* keys of EnhancedClaudeManager.childProcesses
    childProcess,     \* the ChildProcess objects, by id
    isShuttingDown,   \* EnhancedClaudeManager.isShuttingDown
    calls,            \* the executeCommand / executeStreamingCommand calls in flight, by id
    outputStreamer,   \* EnhancedClaudeManager.outputStreamer
    forceKill,        \* the forced-kill timers set by killProcess, by id
    lastCall,         \* the API call made by the last step and what it returned
    crashed,          \* an exception escaped an event handler: the host exits
    emitted,          \* the events the streamer has emitted, by process id
    env,              \* what the callers and the children of this run may do
    mock              \* the MockClaudeManager: its config, its processes map, the
                      \* ClaudeProcess objects and the calls of its executeCommand

vars ==
    <<processes, claudeProcess, childProcesses, childProcess, isShuttingDown, calls,
      outputStreamer, forceKill, lastCall, crashed, emitted, env, mock>>

\* one caller at a time: a single command id, every timeout, calls observed
SingleCommand ==
    [ids |-> {"p1"}, timeouts |-> Timeouts, chunks |-> MaxChunks, observed |-> TRUE,
     killThrows |-> FALSE, names |-> {}]

\* commands side by side: every id, the default timeout, calls not observed
ConcurrentCommands ==
    [ids |-> Ids, timeouts |-> {0}, chunks |-> MaxConcurrentChunks, observed |-> FALSE,
     killThrows |-> FALSE, names |-> {}]

\* one caller, and an OS on which ChildProcess.kill may throw
UnreliableKill ==
    [ids |-> {"p1"}, timeouts |-> {0}, chunks |-> MaxConcurrentChunks, observed |-> TRUE,
     killThrows |-> TRUE, names |-> {}]

\* the closure of one spawnClaudeProcess call and the promises around it:
\* state of the executeCommand promise, output / errorOutput accumulators,
\* timeoutId (timer) and its delay (timeout), and the executeStreamingCommand promise
NoCall ==
    [state |-> "none", streaming |-> FALSE, output |-> "", errorOutput |-> "",
     result |-> "", error |-> NoError, timer |-> "none", timeout |-> 0,
     streamState |-> "none", streamResult |-> ""]

NoTimer == [state |-> "none", delay |-> 0]

NoCommand ==
    [id |-> "", command |-> <<>>, args |-> <<>>, workingDirectory |-> None, timeout |-> 0]

NoApiCall ==
    [op |-> "none", id |-> "", command |-> NoCommand, returned |-> "", error |-> NoError]

\* a call of executeCommand or executeStreamingCommand and how it returned:
\* "pending" (a promise not settled yet) or "rejected" with the error
ExecuteCall(op, command, returned, error) ==
    IF env.observed
    THEN [op |-> op, id |-> command.id, command |-> command, returned |-> returned,
          error |-> error]
    ELSE NoApiCall

\* a call of killProcess or shutdown and what it returned
ApiCall(op, id, returned) ==
    IF env.observed
    THEN [op |-> op, id |-> id, command |-> NoCommand, returned |-> returned,
          error |-> NoError]
    ELSE NoApiCall

\* MockClaudeManager's constructor: this.config = { defaults, ...config } and an
\* empty processes map; failureRate is in tenths, and no ClaudeProcess object
\* and no call exists yet
NewMock(config) ==
    [config |-> config @@ [simulateDelay |-> TRUE, failureRate |-> 1],
     processes |-> <<>>, objects |-> <<>>, calls |-> <<>>]

\* the state after the construction of the EnhancedClaudeManager
InitManager(e) ==
    /\ env = e
    /\ processes = {}
    /\ claudeProcess = <<>>
    /\ childProcesses = {}
    /\ childProcess = [i \in Ids |-> NoChild]
    /\ isShuttingDown = FALSE
    /\ calls = [i \in Ids |-> NoCall]
    /\ outputStreamer = NewStreamer
    /\ forceKill = [i \in Ids |-> NoTimer]
    /\ lastCall = NoApiCall
    /\ crashed = FALSE
    /\ emitted = [i \in Ids |-> <<>>]

InitWith(e) == InitManager(e) /\ mock = NewMock(<<>>)

Init == InitWith(SingleCommand)

InitConcurrent == InitWith(ConcurrentCommands)

InitUnreliableKill == InitWith(UnreliableKill)

(* ------------------------------ queries -------------------------------- *)

getProcess(id) == IF id \in processes THEN Some(claudeProcess[id]) ELSE None

getActiveProcesses == {id \in processes : claudeProcess[id].status = "running"}

isReady == ~isShuttingDown

(* --------------------- executeCommand: settlement ---------------------- *)

\* return fullOutput || result
StreamingResult(fullOutput, result) ==
    IF fullOutput # "" THEN fullOutput ELSE result

\* clearTimeout left out of the exit and error handlers
KeepTimeout(call) == call

\* clearTimeout(timeoutId), as the exit and error handlers call it
clearTimeout(call) ==
    [call EXCEPT !.timer = IF @ = "armed" THEN "cleared" ELSE @]

\* StreamingCleanup without offProcessOutput
StreamingCleanupKeepsHandler(s, id) == stopStreaming(s, id)

\* the finally block of executeStreamingCommand
StreamingCleanup(s, id) == stopStreaming(offProcessOutput(s, id), id)

\* resolve(value) in spawnClaudeProcess and the continuations of executeCommand
\* and executeStreamingCommand it releases; call and s are the closure and the
\* streamer as the event handler leaves them
Resolve(id, call, s, value) ==
    IF call.state # "pending"
    THEN /\ calls' = [calls EXCEPT ![id] = call]
         /\ outputStreamer' = s
         /\ UNCHANGED <<claudeProcess, childProcesses>>
    ELSE /\ claudeProcess' = [claudeProcess EXCEPT ![id] = Completed(@, Timestamp)]
         /\ childProcesses' = childProcesses \ {id}
         /\ calls' = [calls EXCEPT ![id] =
                [call EXCEPT !.state = "resolved", !.result = value,
                             !.streamState = IF call.streaming THEN "resolved" ELSE @,
                             !.streamResult = IF call.streaming
                                              THEN StreamingResult(getFullOutput(s, id), value)
                                              ELSE @]]
         /\ outputStreamer' = IF call.streaming THEN StreamingCleanup(s, id) ELSE s

\* reject(err) in spawnClaudeProcess and the continuations it releases
Reject(id, call, s, err) ==
    IF call.state # "pending"
    THEN /\ calls' = [calls EXCEPT ![id] = call]
         /\ outputStreamer' = s
         /\ UNCHANGED <<claudeProcess, childProcesses>>
    ELSE /\ claudeProcess' = [claudeProcess EXCEPT ![id] = Failed(@, Timestamp, err)]
         /\ childProcesses' = childProcesses \ {id}
         /\ calls' = [calls EXCEPT ![id] =
                [call EXCEPT !.state = "rejected", !.error = err,
                             !.streamState = IF call.streaming THEN "rejected" ELSE @]]
         /\ outputStreamer' = IF call.streaming THEN StreamingCleanup(s, id) ELSE s

(* --------------------------- executeCommand ---------------------------- *)

\* executeCommandCheck without the sanitizer's verdict
UnsanitizedCheck(command) ==
    IF isShuttingDown THEN ShutdownError
    ELSE IF command.id \in processes THEN DuplicateIdError(command.id)
    ELSE NoError

\* executeCommandCheck without the test of this.processes.has(command.id)
DuplicateUnchecked(command) ==
    LET sanitizationResult ==
            sanitizeClaudeCommand(command.command, command.args, command.workingDirectory)
    IN
    IF isShuttingDown THEN ShutdownError
    ELSE IF ~sanitizationResult.isValid
         THEN SanitizationError(sanitizationResult.violations)
    ELSE NoError

\* executeCommandCheck without the test of isShuttingDown
ShutdownUnchecked(command) ==
    LET sanitizationResult ==
            sanitizeClaudeCommand(command.command, command.args, command.workingDirectory)
    IN
    IF ~sanitizationResult.isValid
    THEN SanitizationError(sanitizationResult.violations)
    ELSE IF command.id \in processes THEN DuplicateIdError(command.id)
    ELSE NoError

\* the checks executeCommand makes before it creates the record
executeCommandCheck(command) ==
    LET sanitizationResult ==
            sanitizeClaudeCommand(command.command, command.args, command.workingDirectory)
    IN
    IF isShuttingDown THEN ShutdownError
    ELSE IF ~sanitizationResult.isValid
         THEN SanitizationError(sanitizationResult.violations)
    ELSE IF command.id \in processes THEN DuplicateIdError(command.id)
    ELSE NoError

\* executeCommand from the creation of the record to the end of the
\* spawnClaudeProcess executor: record, spawn, child handle, deadline timer;
\* the id stands for the pid of a child the OS started
Spawn(command, spawnOk, streaming) ==
    LET id == command.id
        child == SpawnedChild(spawnOk)
    IN  /\ processes' = processes \cup {id}
        /\ claudeProcess' = (id :> [NewProcess(command, Timestamp) EXCEPT
                                       !.pid = IF spawnOk THEN Some(id) ELSE None])
                            @@ claudeProcess
        /\ childProcess' = [childProcess EXCEPT ![id] = child]
        /\ childProcesses' = childProcesses \cup {id}
        /\ calls' = [calls EXCEPT ![id] =
               [NoCall EXCEPT !.state = "pending", !.streaming = streaming,
                              !.timer = "armed", !.timeout = EffectiveTimeout(command),
                              !.streamState = IF streaming THEN "pending" ELSE "none"]]

ExecuteCommand(command, spawnOk) ==
    /\ ~crashed
    /\ command.id \in env.ids /\ command.timeout \in env.timeouts
    /\ LET err == executeCommandCheck(command) IN
       IF err # NoError
       THEN /\ lastCall' = ExecuteCall("executeCommand", command, "rejected", err)
            /\ UNCHANGED <<processes, claudeProcess, childProcesses, childProcess,
                           calls, outputStreamer>>
       ELSE /\ Spawn(command, spawnOk, FALSE)
            /\ lastCall' = ExecuteCall("executeCommand", command, "pending", NoError)
            /\ UNCHANGED outputStreamer
    /\ UNCHANGED <<isShuttingDown, forceKill, crashed, emitted, env, mock>>

ExecuteStreamingCommand(command, spawnOk) ==
    /\ ~crashed
    /\ command.id \in env.ids /\ command.timeout \in env.timeouts
    /\ IF isShuttingDown
       THEN /\ lastCall' = ExecuteCall("executeStreamingCommand", command, "rejected",
                                       ShutdownError)
            /\ UNCHANGED <<processes, claudeProcess, childProcesses, childProcess,
                           calls, outputStreamer>>
       ELSE LET s == onProcessOutput(startStreaming(outputStreamer, command.id), command.id)
                err == executeCommandCheck(command)
            IN  IF err # NoError
                THEN /\ outputStreamer' = StreamingCleanup(s, command.id)
                     /\ lastCall' = ExecuteCall("executeStreamingCommand", command,
                                                "rejected", err)
                     /\ UNCHANGED <<processes, claudeProcess, childProcesses,
                                    childProcess, calls>>
                ELSE /\ Spawn(command, spawnOk, TRUE)
                     /\ outputStreamer' = s
                     /\ lastCall' = ExecuteCall("executeStreamingCommand", command,
                                                "pending", NoError)
    /\ UNCHANGED <<isShuttingDown, forceKill, crashed, emitted, env, mock>>

(* ------------------------- child event handlers ------------------------ *)

RECURSIVE WrittenBy(_)
\* the number of chunks the children in S have written so far
WrittenBy(S) ==
    IF S = {} THEN 0
    ELSE LET i == CHOOSE x \in S : TRUE
         IN  Len(childProcess[i].stdout) + Len(childProcess[i].stderr) + WrittenBy(S \ {i})

\* the payload of the next chunk a child writes
NextPayload == Payloads[(WrittenBy(Ids) % Len(Payloads)) + 1]

\* AppendOutput with the operands swapped
PrependOutput(output, data) == data \o output

\* output += data
AppendOutput(output, data) == output \o data

\* childProcess.stdout.on('data', ...)
ChildStdout(id) ==
    LET data == NextPayload IN
    /\ ~crashed
    /\ childProcess[id].state = "alive"
    /\ WrittenBy(Ids) < env.chunks
    /\ childProcess' = [childProcess EXCEPT ![id].stdout = Append(@, data)]
    /\ calls' = [calls EXCEPT ![id].output = AppendOutput(@, data)]
    /\ outputStreamer' = IF isStreaming(outputStreamer, id)
                         THEN streamOutput(outputStreamer, id, data)
                         ELSE outputStreamer
    /\ emitted' = [emitted EXCEPT ![id] =
                      @ \o streamOutputEmits(outputStreamer, id, "stdout", data)]
    /\ lastCall' = NoApiCall
    /\ UNCHANGED <<processes, claudeProcess, childProcesses, isShuttingDown, forceKill,
                   crashed, env, mock>>

\* childProcess.stderr.on('data', ...)
ChildStderr(id) ==
    LET data == NextPayload IN
    /\ ~crashed
    /\ childProcess[id].state = "alive"
    /\ WrittenBy(Ids) < env.chunks
    /\ childProcess' = [childProcess EXCEPT ![id].stderr = Append(@, data)]
    /\ calls' = [calls EXCEPT ![id].errorOutput = AppendOutput(@, data)]
    /\ outputStreamer' = IF isStreaming(outputStreamer, id)
                         THEN streamOutput(outputStreamer, id, data)
                         ELSE outputStreamer
    /\ emitted' = [emitted EXCEPT ![id] =
                      @ \o streamOutputEmits(outputStreamer, id, "stderr", data)]
    /\ lastCall' = NoApiCall
    /\ UNCHANGED <<processes, claudeProcess, childProcesses, isShuttingDown, forceKill,
                   crashed, env, mock>>

\* the signals that terminate a child without the manager sending them: a
\* crash of the child
ExternalSignals == {"SIGSEGV"}

\* the <<code, signal>> pairs a child can exit with: a code of its own choice, or
\* null and the signal that terminated it
ExitPairs(child) ==
    {<<Some(c), None>> : c \in ExitCodes}
        \cup {<<None, Some(sig)>> : sig \in child.signals \cup ExternalSignals}

\* code || 0
CodeOrZero(code) == IF code = None \/ code = Some(0) THEN 0 ELSE code[1]

\* ExitSettlement testing (code || 0) === 0 instead of code === 0
ExitSettlementCodeOrZero(code, signal, output, errorOutput) ==
    IF CodeOrZero(code) = 0
    THEN [resolved |-> TRUE, value |-> output, error |-> NoError]
    ELSE [resolved |-> FALSE, value |-> "",
          error |-> ProcessExitError(code, signal, errorOutput)]

\* the settlement the exit handler chooses: resolve(output) when code === 0,
\* else reject(new Error(... code, signal, errorOutput))
ExitSettlement(code, signal, output, errorOutput) ==
    IF code = Some(0)
    THEN [resolved |-> TRUE, value |-> output, error |-> NoError]
    ELSE [resolved |-> FALSE, value |-> "",
          error |-> ProcessExitError(code, signal, errorOutput)]

\* childProcess.on('exit', (code, signal) => ...)
ChildExit(id, code, signal) ==
    /\ ~crashed
    /\ childProcess[id].state = "alive"
    /\ <<code, signal>> \in ExitPairs(childProcess[id])
    /\ childProcess' = [childProcess EXCEPT ![id].state = "exited",
                                            ![id].exit = Some(<<code, signal>>)]
    /\ LET call == clearTimeout(calls[id])
           s == IF isStreaming(outputStreamer, id)
                THEN streamProcessExit(outputStreamer, id, CodeOrZero(code))
                ELSE outputStreamer
           settle == ExitSettlement(code, signal, call.output, call.errorOutput)
       IN  IF settle.resolved
           THEN Resolve(id, call, s, settle.value)
           ELSE Reject(id, call, s, settle.error)
    /\ emitted' = [emitted EXCEPT ![id] =
                      @ \o streamProcessExitEmits(outputStreamer, id, CodeOrZero(code))]
    /\ lastCall' = NoApiCall
    /\ UNCHANGED <<processes, isShuttingDown, forceKill, crashed, env, mock>>

\* childProcess.on('error', (error) => ...): the OS could not start the child
ChildError(id) ==
    /\ ~crashed
    /\ childProcess[id].state = "failed"
    /\ childProcess' = [childProcess EXCEPT ![id].state = "errored"]
    /\ LET call == clearTimeout(calls[id]) IN
       IF isStreaming(outputStreamer, id)
       THEN LET s == streamError(outputStreamer, id, SpawnError.message) IN
            IF StreamErrorThrows(outputStreamer, id)
            THEN \* the exception leaves the handler before reject(error)
                 /\ calls' = [calls EXCEPT ![id] = call]
                 /\ outputStreamer' = s
                 /\ crashed' = TRUE
                 /\ UNCHANGED <<claudeProcess, childProcesses>>
            ELSE /\ Reject(id, call, s, SpawnError)
                 /\ UNCHANGED crashed
       ELSE /\ Reject(id, call, outputStreamer, SpawnError)
            /\ UNCHANGED crashed
    /\ emitted' = [emitted EXCEPT ![id] =
                      @ \o streamErrorEmits(outputStreamer, id, SpawnError.message)]
    /\ lastCall' = NoApiCall
    /\ UNCHANGED <<processes, isShuttingDown, forceKill, env, mock>>

\* ChildProcess.kill(signal) throws: the OS refuses the signal (EINVAL, ENOSYS)
\* for a process whose handle exists
KillThrows(child, killOk) == child.state = "alive" /\ ~killOk

\* the setTimeout callback of spawnClaudeProcess; the 'error' event of a child
\* that could not be started is emitted on the next tick, before any timer
TimerFire(id, killOk) ==
    /\ ~crashed
    /\ calls[id].timer = "armed"
    /\ childProcess[id].state # "failed"
    /\ killOk \/ (env.killThrows /\ childProcess[id].state = "alive")
    /\ IF KillThrows(childProcess[id], killOk)
       THEN \* the exception leaves the callback before reject(...)
            /\ calls' = [calls EXCEPT ![id].timer = "fired"]
            /\ crashed' = TRUE
            /\ UNCHANGED <<childProcess, claudeProcess, childProcesses, outputStreamer>>
       ELSE /\ childProcess' = [childProcess EXCEPT ![id] = Kill(@, "SIGTERM")]
            /\ Reject(id, [calls[id] EXCEPT !.timer = "fired"], outputStreamer,
                      TimeoutError(calls[id].timeout))
            /\ UNCHANGED crashed
    /\ lastCall' = NoApiCall
    /\ UNCHANGED <<processes, isShuttingDown, forceKill, emitted, env, mock>>

(* ------------------------------ killProcess ---------------------------- *)

\* CanKill without the status check
CanKillTracked(id) == id \in processes

\* killProcess gets past its two early returns
CanKill(id) == id \in processes /\ claudeProcess[id].status = "running"

\* KillChild without the signal
KillChildNoSignal(id) == childProcess[id]

\* the child after killProcess: SIGTERM when the manager still holds its handle
KillChild(id) ==
    IF id \in childProcesses THEN Kill(childProcess[id], "SIGTERM") ELSE childProcess[id]

\* the forced-kill timer after killProcess
KillTimer(id) ==
    IF id \in childProcesses
    THEN [state |-> "armed", delay |-> forceKillDelay]
    ELSE forceKill[id]

KillProcess(id, killOk) ==
    /\ ~crashed
    /\ id \in env.ids
    /\ killOk \/ (env.killThrows /\ CanKill(id) /\ id \in childProcesses
                      /\ childProcess[id].state = "alive")
    /\ IF ~CanKill(id)
       THEN /\ lastCall' = ApiCall("killProcess", id, "false")
            /\ UNCHANGED <<claudeProcess, childProcesses, childProcess, forceKill,
                           outputStreamer>>
       ELSE IF id \in childProcesses /\ KillThrows(childProcess[id], killOk)
       THEN \* childProcess.kill('SIGTERM') throws: the promise of killProcess rejects
            /\ lastCall' = ApiCall("killProcess", id, "rejected")
            /\ UNCHANGED <<claudeProcess, childProcesses, childProcess, forceKill,
                           outputStreamer>>
       ELSE /\ childProcess' = [childProcess EXCEPT ![id] = KillChild(id)]
            /\ forceKill' = [forceKill EXCEPT ![id] = KillTimer(id)]
            /\ childProcesses' = childProcesses \ {id}
            /\ claudeProcess' = [claudeProcess EXCEPT ![id] = Killed(@, Timestamp)]
            /\ outputStreamer' = stopStreaming(outputStreamer, id)
            /\ lastCall' = ApiCall("killProcess", id, "true")
    /\ UNCHANGED <<processes, isShuttingDown, calls, crashed, emitted, env, mock>>

\* if (!childProcess.killed) childProcess.kill('SIGKILL')
ForceKill(child) ==
    IF ~child.killed THEN Kill(child, "SIGKILL") ELSE child

\* the setTimeout callback of killProcess
ForceKillFire(id) ==
    /\ ~crashed
    /\ forceKill[id].state = "armed"
    /\ childProcess[id].state # "failed"
    /\ forceKill' = [forceKill EXCEPT ![id].state = "fired"]
    /\ childProcess' = [childProcess EXCEPT ![id] = ForceKill(@)]
    /\ lastCall' = NoApiCall
    /\ UNCHANGED <<processes, claudeProcess, childProcesses, isShuttingDown, calls,
                   outputStreamer, crashed, emitted, env, mock>>

(* -------------------------------- shutdown ----------------------------- *)

\* the running records whose kill can throw
Throwable ==
    IF env.killThrows /\ ~isShuttingDown
    THEN {i \in getActiveProcesses : i \in childProcesses /\ childProcess[i].state = "alive"}
    ELSE {}

\* shutdown; throwing are the records for which childProcess.kill throws. Every
\* killProcess(id) of the map runs to its end or to its exception before
\* Promise.all is awaited, and the await throws when one of them rejected
Shutdown(throwing) ==
    /\ ~crashed
    /\ throwing \subseteq Throwable
    /\ IF isShuttingDown
       THEN /\ lastCall' = ApiCall("shutdown", "", "void")
            /\ UNCHANGED <<processes, claudeProcess, childProcesses, childProcess,
                           isShuttingDown, outputStreamer, forceKill>>
       ELSE LET active == getActiveProcesses
                killed == active \ throwing
            IN
            /\ isShuttingDown' = TRUE
            /\ childProcess' = [i \in Ids |->
                   IF i \in killed THEN KillChild(i) ELSE childProcess[i]]
            /\ forceKill' = [i \in Ids |->
                   IF i \in killed THEN KillTimer(i) ELSE forceKill[i]]
            /\ claudeProcess' = [i \in DOMAIN claudeProcess |->
                   IF i \in killed THEN Killed(claudeProcess[i], Timestamp) ELSE claudeProcess[i]]
            /\ IF throwing = {}
               THEN /\ outputStreamer' = StreamerShutdown(outputStreamer)
                    /\ processes' = {}
                    /\ childProcesses' = {}
                    /\ lastCall' = ApiCall("shutdown", "", "void")
               ELSE \* the statements after the await are not reached
                    /\ outputStreamer' = stopStreamingAll(outputStreamer, killed)
                    /\ childProcesses' = childProcesses \ killed
                    /\ lastCall' = ApiCall("shutdown", "", "rejected")
                    /\ UNCHANGED processes
    /\ UNCHANGED <<calls, crashed, emitted, env, mock>>

(* ----------------------------- specification --------------------------- *)

Next ==
    \/ \E command \in Commands, spawnOk \in BOOLEAN : ExecuteCommand(command, spawnOk)
    \/ \E command \in Commands, spawnOk \in BOOLEAN :
           ExecuteStreamingCommand(command, spawnOk)
    \/ \E id \in Ids : ChildStdout(id)
    \/ \E id \in Ids : ChildStderr(id)
    \/ \E id \in Ids, code \in {None} \cup {Some(c) : c \in ExitCodes},
          signal \in {None, Some("SIGTERM"), Some("SIGKILL"), Some("SIGSEGV")} :
              ChildExit(id, code, signal)
    \/ \E id \in Ids : ChildError(id)
    \/ \E id \in Ids, killOk \in BOOLEAN : TimerFire(id, killOk)
    \/ \E id \in Ids, killOk \in BOOLEAN : KillProcess(id, killOk)
    \/ \E id \in Ids : ForceKillFire(id)
    \/ \E throwing \in SUBSET Ids : Shutdown(throwing)

Spec == Init /\ [][Next]_vars

ConcurrentSpec == InitConcurrent /\ [][Next]_vars

UnreliableKillSpec == InitUnreliableKill /\ [][Next]_vars

\* timers whose delay has passed fire, and the 'error' event of a child that
\* could not be started is delivered; a child need not ever exit
Fairness ==
    /\ \A id \in Ids : WF_vars(TimerFire(id, TRUE))
    /\ \A id \in Ids : WF_vars(ForceKillFire(id))
    /\ \A id \in Ids : WF_vars(ChildError(id))

FairSpec == Spec /\ Fairness

(* ------------------- the streamer used on its own ---------------------- *)

\* a client of ClaudeOutputStreamer that owns the streamer: it opens and
\* closes streams, streams into them and subscribes under these names, with
\* one handler a name
StreamerClient ==
    [ids |-> Ids, timeouts |-> {0}, chunks |-> 0, observed |-> TRUE,
     killThrows |-> FALSE,
     names |-> {"output", "stdout", "error",
                formatProcessEvent("output", "p1"), formatProcessEvent("output", "p2")}]

InitStreamer == InitWith(StreamerClient)

\* a call of a ClaudeOutputStreamer method: how it returned, the lifecycle
\* notifications and the stream events it emitted
StreamerCall(op, id, returned, notified, events) ==
    [op |-> op, id |-> id, command |-> NoCommand, returned |-> returned,
     error |-> NoError, notified |-> notified, events |-> events]

\* the manager's state and its log of events, which a streamer used on its
\* own leaves alone
managerVars ==
    <<processes, claudeProcess, childProcesses, childProcess, isShuttingDown, calls,
      forceKill, crashed, emitted, env, mock>>

StartStreaming(id) ==
    /\ outputStreamer' = startStreaming(outputStreamer, id)
    /\ lastCall' = StreamerCall("startStreaming", id, "void",
                                startStreamingEmits(outputStreamer, id), <<>>)
    /\ UNCHANGED managerVars

StopStreaming(id) ==
    /\ outputStreamer' = stopStreaming(outputStreamer, id)
    /\ lastCall' = StreamerCall("stopStreaming", id, "void",
                                stopStreamingEmits(outputStreamer, id), <<>>)
    /\ UNCHANGED managerVars

StreamOutput(id, type, data) ==
    /\ outputStreamer' = streamOutput(outputStreamer, id, data)
    /\ lastCall' = StreamerCall("streamOutput", id, "void", <<>>,
                                streamOutputEmits(outputStreamer, id, type, data))
    /\ UNCHANGED managerVars

\* without a handler for 'error' the emit throws into the caller of streamError
StreamError(id, message) ==
    /\ outputStreamer' = streamError(outputStreamer, id, message)
    /\ lastCall' = StreamerCall("streamError", id,
                                IF StreamErrorThrows(outputStreamer, id)
                                THEN "threw" ELSE "void", <<>>,
                                streamErrorEmits(outputStreamer, id, message))
    /\ UNCHANGED managerVars

StreamProcessExit(id, exitCode) ==
    /\ outputStreamer' = streamProcessExit(outputStreamer, id, exitCode)
    /\ lastCall' = StreamerCall("streamProcessExit", id, "void",
                                stopStreamingEmits(outputStreamer, id),
                                streamProcessExitEmits(outputStreamer, id, exitCode))
    /\ UNCHANGED managerVars

ClearBuffer(id) ==
    /\ outputStreamer' = clearBuffer(outputStreamer, id)
    /\ lastCall' = StreamerCall("clearBuffer", id, "void", <<>>, <<>>)
    /\ UNCHANGED managerVars

\* onOutput, onProcessOutput, onProcessError, onProcessExit or on(name, .)
Subscribe(name) ==
    /\ outputStreamer.listeners[name] = 0
    /\ outputStreamer' = on(outputStreamer, name)
    /\ lastCall' = StreamerCall("on", name, "void", <<>>, <<>>)
    /\ UNCHANGED managerVars

Unsubscribe(name) ==
    /\ outputStreamer' = off(outputStreamer, name)
    /\ lastCall' = StreamerCall("off", name, "void", <<>>, <<>>)
    /\ UNCHANGED managerVars

\* the lifecycle notifications of shutdown: one 'stream-stopped' a stream
RECURSIVE ShutdownEmits(_, _)
ShutdownEmits(s, S) ==
    IF S = {} THEN <<>>
    ELSE LET i == CHOOSE x \in S : TRUE
         IN stopStreamingEmits(s, i) \o ShutdownEmits(stopStreaming(s, i), S \ {i})

ShutdownStreamer ==
    /\ outputStreamer' = StreamerShutdown(outputStreamer)
    /\ lastCall' = StreamerCall("shutdown", "", "void",
                                ShutdownEmits(outputStreamer, outputStreamer.activeStreams),
                                <<>>)
    /\ UNCHANGED managerVars

StreamerNext ==
    \/ \E id \in env.ids : StartStreaming(id)
    \/ \E id \in env.ids : StopStreaming(id)
    \/ \E id \in env.ids, type \in {"stdout", "stderr"}, data \in StreamData :
           StreamOutput(id, type, data)
    \/ \E id \in env.ids, message \in StreamData : StreamError(id, message)
    \/ \E id \in env.ids, exitCode \in ExitCodes : StreamProcessExit(id, exitCode)
    \/ \E id \in env.ids : ClearBuffer(id)
    \/ \E name \in env.names : Subscribe(name)
    \/ \E name \in env.names : Unsubscribe(name)
    \/ ShutdownStreamer

StreamerSpec == InitStreamer /\ [][StreamerNext]_vars

(* ----------------------- the sanitizer used on its own ------------------ *)

\* arguments the callers of the sanitizer pass

\* 'hello'
hello == <<"h", "e", "l", "l", "o">>

\* 'rm -rf /etc'
rmRfEtc == <<"r", "m", " ", "-", "r", "f", " ", "/", "e", "t", "c">>

\* '/etc/passwd'
etcPasswd == <<"/", "e", "t", "c", "/", "p", "a", "s", "s", "w", "d">>

\* '-rf'
dashRf == <<"-", "r", "f">>

\* 'sk-ant-abc'
exposedKey == <<"s", "k", "-", "a", "n", "t", "-", "a", "b", "c">>

\* 'ANTHROPIC_API_KEY=x'
namedKey ==
    <<"A", "N", "T", "H", "R", "O", "P", "I", "C", "_", "A", "P", "I", "_", "K", "E",
      "Y", "=", "x">>

\* '$HOME'
envHome == <<"$", "H", "O", "M", "E">>

\* 'HTTP://x.y'
url == <<"H", "T", "T", "P", ":", "/", "/", "x", ".", "y">>

\* '../up'
upDirectory == <<".", ".", "/", "u", "p">>

\* 'a;b'
twoCommands == <<"a", ";", "b">>

\* '--eval'
evalFlag == <<"-", "-", "e", "v", "a", "l">>

\* '-f'
fileFlag == <<"-", "f">>

\* 'Ignore \t previous instructions'
injection ==
    <<"I", "g", "n", "o", "r", "e", " ", "\t", " ", "p", "r", "e", "v", "i", "o", "u",
      "s", " ", "i", "n", "s", "t", "r", "u", "c", "t", "i", "o", "n", "s">>

\* 'system:override'
override ==
    <<"s", "y", "s", "t", "e", "m", ":", "o", "v", "e", "r", "r", "i", "d", "e">>

\* fifty times the same character
repeated == Repeat("a", 50)

\* 'abc' ten times
repeatedPattern ==
    [k \in 1..30 |-> <<"a", "b", "c">>[((k - 1) % 3) + 1]]

\* 'key=' and 32 characters of a key
keyMaterial == <<"k", "e", "y", "=">> \o Repeat("x", 32)

\* a bell character in a word
controlCharacter == <<"a", "BEL", "b">>

SampleArguments ==
    {hello, rmRfEtc, etcPasswd, dashRf, exposedKey, namedKey, envHome, url, upDirectory,
     twoCommands, evalFlag, fileFlag, injection, override, repeated, repeatedPattern,
     keyMaterial, controlCharacter}

\* the args of one call
ArgumentLists ==
    {<<>>} \cup {<<arg>> : arg \in SampleArguments}
        \cup {<<dashRf, etcPasswd>>, <<hello, evalFlag>>, <<evalFlag, fileFlag>>}

\* the command names: 'claude', '', ' ', ' claude ', 'rm', 'Rm', 'a|b', '../x', 'sudo'
SampleCommands ==
    {claude, <<>>, <<" ">>, <<" ">> \o claude \o <<" ">>, <<"r", "m">>, <<"R", "m">>,
     <<"a", "|", "b">>, <<".", ".", "/", "x">>, <<"s", "u", "d", "o">>}

\* the working directories: undefined, '', '/tmp', '/etc', '/tmp/..', '/etc/foo',
\* '/var/log'
SampleDirectories ==
    {None, Some(<<>>), Some(<<"/", "t", "m", "p">>), Some(<<"/", "e", "t", "c">>),
     Some(<<"/", "t", "m", "p", "/", ".", ".">>),
     Some(<<"/", "e", "t", "c", "/", "f", "o", "o">>),
     Some(<<"/", "v", "a", "r", "/", "l", "o", "g">>)}

\* options of a caller with short limits, shell metacharacters allowed and the
\* blocked pattern /sudo/
shortOptions ==
    [defaultOptions EXCEPT !.allowShellMetacharacters = TRUE, !.maxCommandLength = 5,
                           !.maxArgumentLength = 5, !.maxArgumentCount = 1,
                           !.customBlockedPatterns = << <<Lit(<<"s", "u", "d", "o">>)>> >>]

Policies == {claudeOptions, strictOptions, shortOptions}

\* for every policy and its maxArgumentLength: a short command with an argument
\* of exactly maxArgumentLength characters, and with one of maxArgumentLength + 1
BoundaryInputs ==
    {[command |-> command, args |-> <<Repeat("a", options.maxArgumentLength + over)>>,
      workingDirectory |-> None, options |-> options] :
         command \in {claude, <<"l", "s">>}, options \in Policies, over \in {0, 1}}

\* what one caller passes: every command name and working directory without
\* arguments, 'claude' and 'rm' with every argument list, and 'claude' and 'ls'
\* with an argument at the length limit of the caller's options
Inputs ==
    [command : SampleCommands, args : {<<>>}, workingDirectory : SampleDirectories,
     options : Policies]
    \cup
    [command : {claude, <<"r", "m">>}, args : ArgumentLists,
     workingDirectory : {None, Some(<<"/", "e", "t", "c">>)}, options : Policies]
    \cup BoundaryInputs

\* a caller of the sanitizer and of executeCommand that has one command
SanitizerCaller(input) ==
    [ids |-> {"p1"}, timeouts |-> {0}, chunks |-> 0, observed |-> TRUE,
     killThrows |-> FALSE, names |-> {}, input |-> input]

InitSanitizer == \E input \in Inputs : InitWith(SanitizerCaller(input))

\* a call of sanitizeCommand or sanitizeClaudeCommand and the SanitizationResult
\* it returned
SanitizerCall(op, input, options, result) ==
    [op |-> op, id |-> "",
     command |-> [NoCommand EXCEPT !.command = input.command, !.args = input.args,
                                   !.workingDirectory = input.workingDirectory],
     returned |-> "result", error |-> NoError, options |-> options, result |-> result]

SanitizeCommand ==
    /\ lastCall' = SanitizerCall("sanitizeCommand", env.input, env.input.options,
                                 sanitizeCommand(env.input.command, env.input.args,
                                                 env.input.workingDirectory,
                                                 env.input.options))
    /\ UNCHANGED <<managerVars, outputStreamer>>

SanitizeClaudeCommand ==
    /\ lastCall' = SanitizerCall("sanitizeClaudeCommand", env.input, claudeOptions,
                                 sanitizeClaudeCommand(env.input.command, env.input.args,
                                                       env.input.workingDirectory))
    /\ UNCHANGED <<managerVars, outputStreamer>>

\* the ClaudeCommand the caller hands to executeCommand
InputCommand ==
    [id |-> "p1", command |-> env.input.command, args |-> env.input.args,
     workingDirectory |-> env.input.workingDirectory, timeout |-> 0]

SanitizerNext ==
    \/ SanitizeCommand
    \/ SanitizeClaudeCommand
    \/ ExecuteCommand(InputCommand, TRUE)

SanitizerSpec == InitSanitizer /\ [][SanitizerNext]_vars

(* -------------------------- simulated manager -------------------------- *)

\* the MockConfigs a caller passes to the constructor: none, no delay, no
\* failures (rate 0), failures only (rate 1, ten tenths)
MockConfigs ==
    {<<>>, [simulateDelay |-> FALSE], [failureRate |-> 0], [failureRate |-> 10]}

\* values of Math.random(), in tenths: 0 and 0.5
RandomValues == {0, 5}

\* the commands run on the simulated manager: 'claude' with the arguments
\* 'hello' 'hello', a response of two chunks; no argument holds a '$'
MockCommands ==
    [id : Ids, command : {claude}, args : {<<hello, hello>>},
     workingDirectory : {None}, timeout : {0}]

\* a client of a simulated manager, which uses one id
MockClient ==
    [ids |-> {"p1"}, timeouts |-> {0}, chunks |-> 0, observed |-> TRUE,
     killThrows |-> FALSE, names |-> {}]

InitMock == \E config \in MockConfigs : InitManager(MockClient) /\ mock = NewMock(config)

\* the errors of the simulated manager
MockCommandFailure == [kind |-> "mock", message |-> "Mock command failure"]

MockExecutionFailed == [kind |-> "mock", message |-> "Mock command execution failed"]

RECURSIVE JoinWith(_, _)
\* Array.prototype.join(separator)
JoinWith(strings, separator) ==
    IF strings = <<>> THEN <<>>
    ELSE IF Len(strings) = 1 THEN strings[1]
    ELSE strings[1] \o separator \o JoinWith(Tail(strings), separator)

\* responseTemplate 'Mock response for: {input}' with {input} replaced by the
\* arguments joined by blanks
MockResponse(command) ==
    <<"M", "o", "c", "k", " ", "r", "e", "s", "p", "o", "n", "s", "e", " ", "f", "o", "r",
      ":", " ">> \o JoinWith(command.args, <<" ">>)

RECURSIVE breakIntoChunks(_, _)
breakIntoChunks(text, chunkSize) ==
    IF text = <<>> THEN <<>>
    ELSE IF Len(text) <= chunkSize THEN <<text>>
    ELSE <<SubSeq(text, 1, chunkSize)>>
             \o breakIntoChunks(SubSeq(text, chunkSize + 1, Len(text)), chunkSize)

\* the chunks executeStreamingCommand passes to onOutput
MockChunks(command) == breakIntoChunks(MockResponse(command), 20)

\* a call of executeCommand or executeStreamingCommand: "delay" (awaiting the
\* simulated delay), "chunks" (passing chunks to onOutput), "resolved" or
\* "rejected"; delivered are the chunks onOutput has been called with
MockCall(command, streaming, ref) ==
    [id |-> command.id, streaming |-> streaming, ref |-> ref, state |-> "delay",
     result |-> <<>>, error |-> NoError, delivered |-> <<>>]

\* executeCommand up to the simulated delay: a new ClaudeProcess object, set
\* in the processes map under the id of the command
MockStart(m, command, streaming) ==
    LET ref == Len(m.objects) + 1 IN
    [m EXCEPT !.objects = Append(@, [NewProcess(command, Timestamp) EXCEPT
                                        !.pid = Some("Math.random()")]),
              !.processes = (command.id :> ref) @@ @,
              !.calls = Append(@, MockCall(command, streaming, ref))]

\* Math.random() < (this.config.failureRate || 0)
MockFails(m, random) == random < m.config.failureRate

\* executeCommand after the simulated delay, and the continuation of
\* executeStreamingCommand up to its next delay: the object of the call becomes
\* failed or completed, and a streaming call passes its first chunk to
\* onOutput, or every chunk when no delay is simulated
MockSettle(m, ref, random) ==
    LET command == m.objects[ref].command
        chunks == MockChunks(command)
    IN  IF MockFails(m, random)
        THEN [m EXCEPT !.objects[ref] = Failed(@, Timestamp, MockCommandFailure),
                       !.calls[ref].state = "rejected",
                       !.calls[ref].error = MockExecutionFailed]
        ELSE IF ~m.calls[ref].streaming
        THEN [m EXCEPT !.objects[ref] = Completed(@, Timestamp),
                       !.calls[ref].state = "resolved",
                       !.calls[ref].result = MockResponse(command)]
        ELSE IF m.config.simulateDelay
        THEN [m EXCEPT !.objects[ref] = Completed(@, Timestamp),
                       !.calls[ref].state = "chunks",
                       !.calls[ref].delivered = <<chunks[1]>>]
        ELSE [m EXCEPT !.objects[ref] = Completed(@, Timestamp),
                       !.calls[ref].state = "resolved",
                       !.calls[ref].result = MockResponse(command),
                       !.calls[ref].delivered = chunks]

\* the manager's own state, which the simulated manager leaves alone
mockFrame ==
    <<processes, claudeProcess, childProcesses, childProcess, isShuttingDown, calls,
      outputStreamer, forceKill, crashed, emitted, env>>

\* executeCommand (streaming FALSE) and executeStreamingCommand (streaming TRUE)
\* up to the first delay, or to their end when no delay is simulated
MockExecute(m, command, streaming, random) ==
    IF m.config.simulateDelay THEN MockStart(m, command, streaming)
    ELSE MockSettle(MockStart(m, command, streaming), Len(m.objects) + 1, random)

\* how the promise of the call stands when the step ends
MockReturned(m, ref) ==
    IF m.calls[ref].state \in {"resolved", "rejected"} THEN m.calls[ref].state
    ELSE "pending"

MockExecuteCommand(command, random) ==
    /\ Len(mock.objects) < MaxMockCommands
    /\ command.id \in env.ids
    /\ mock' = MockExecute(mock, command, FALSE, random)
    /\ lastCall' = ExecuteCall("executeCommand", command,
                               MockReturned(mock', Len(mock'.calls)),
                               mock'.calls[Len(mock'.calls)].error)
    /\ UNCHANGED mockFrame

MockExecuteStreamingCommand(command, random) ==
    /\ Len(mock.objects) < MaxMockCommands
    /\ command.id \in env.ids
    /\ mock' = MockExecute(mock, command, TRUE, random)
    /\ lastCall' = ExecuteCall("executeStreamingCommand", command,
                               MockReturned(mock', Len(mock'.calls)),
                               mock'.calls[Len(mock'.calls)].error)
    /\ UNCHANGED mockFrame

\* the setTimeout of defaultDelay elapses for a call
MockDelayElapsed(ref, random) ==
    /\ ref \in 1..Len(mock.calls)
    /\ mock.calls[ref].state = "delay"
    /\ mock' = MockSettle(mock, ref, random)
    /\ lastCall' = NoApiCall
    /\ UNCHANGED mockFrame

\* the delay between two chunks elapses: the next chunk goes to onOutput, or
\* the call returns the response after the last one
MockChunkDelayElapsed(ref) ==
    /\ ref \in 1..Len(mock.calls)
    /\ mock.calls[ref].state = "chunks"
    /\ LET command == mock.objects[ref].command
           chunks == MockChunks(command)
           delivered == mock.calls[ref].delivered
       IN  mock' = IF Len(delivered) < Len(chunks)
                   THEN [mock EXCEPT !.calls[ref].delivered =
                                         Append(@, chunks[Len(delivered) + 1])]
                   ELSE [mock EXCEPT !.calls[ref].state = "resolved",
                                     !.calls[ref].result = MockResponse(command)]
    /\ lastCall' = NoApiCall
    /\ UNCHANGED mockFrame

mockGetProcess(m, id) ==
    IF id \in DOMAIN m.processes THEN Some(m.objects[m.processes[id]]) ELSE None

mockGetActiveProcesses(m) ==
    {id \in DOMAIN m.processes : m.objects[m.processes[id]].status = "running"}

mockKillProcess(m, id) ==
    IF id \notin DOMAIN m.processes THEN m
    ELSE IF m.objects[m.processes[id]].status # "running" THEN m
    ELSE [m EXCEPT !.objects[m.processes[id]] = Killed(@, Timestamp)]

MockKillProcess(id) ==
    /\ id \in env.ids
    /\ mock' = mockKillProcess(mock, id)
    /\ lastCall' = ApiCall("killProcess", id,
                           IF id \in mockGetActiveProcesses(mock) THEN "true" ELSE "false")
    /\ UNCHANGED mockFrame

\* shutdown: killProcess for every active process, then this.processes.clear()
MockShutdown ==
    /\ mock' = [mock EXCEPT
                   !.objects = [ref \in DOMAIN @ |->
                                   IF \E id \in mockGetActiveProcesses(mock) :
                                          mock.processes[id] = ref
                                   THEN Killed(@[ref], Timestamp) ELSE @[ref]],
                   !.processes = <<>>]
    /\ lastCall' = ApiCall("shutdown", "", "void")
    /\ UNCHANGED mockFrame

\* simulateFailure(processId, error)
MockSimulateFailure(id) ==
    /\ id \in env.ids
    /\ mock' = IF id \in DOMAIN mock.processes
               THEN [mock EXCEPT !.objects[mock.processes[id]] =
                                     Failed(@, Timestamp,
                                            [kind |-> "mock", message |-> "simulated"])]
               ELSE mock
    /\ lastCall' = ApiCall("simulateFailure", id, "void")
    /\ UNCHANGED mockFrame

MockNext ==
    \/ \E command \in MockCommands, random \in RandomValues :
           MockExecuteCommand(command, random)
    \/ \E command \in MockCommands, random \in RandomValues :
           MockExecuteStreamingCommand(command, random)
    \/ \E ref \in 1..MaxMockCommands, random \in RandomValues : MockDelayElapsed(ref, random)
    \/ \E ref \in 1..MaxMockCommands : MockChunkDelayElapsed(ref)
    \/ \E id \in Ids : MockKillProcess(id)
    \/ MockShutdown
    \/ \E id \in Ids : MockSimulateFailure(id)

MockSpec == InitMock /\ [][MockNext]_vars

(* --------------------------- manager factory --------------------------- *)

\* the FactoryConfigs of a caller: type and forceProduction, each possibly
\* undefined
FactoryConfigs ==
    [type : {None, Some("production"), Some("mock"), Some("auto")},
     forceProduction : {None, Some(FALSE), Some(TRUE)}]

\* process.env as far as the factory reads it
ProcessEnvironments ==
    [NODE_ENV : {None, Some("test"), Some("development"), Some("production"),
                 Some("staging")},
     JEST_WORKER_ID : {None, Some("1")},
     VITEST : {None, Some("true")}]

isTestEnvironment(processEnv) ==
    \/ processEnv.NODE_ENV = Some("test")
    \/ processEnv.JEST_WORKER_ID # None
    \/ processEnv.VITEST # None

isDevelopmentEnvironment(processEnv) ==
    processEnv.NODE_ENV = Some("development") \/ processEnv.NODE_ENV = None

determineManagerType(config, processEnv) ==
    IF config.type # None /\ config.type # Some("auto") THEN config.type[1]
    ELSE IF config.forceProduction = Some(TRUE) THEN "production"
    ELSE IF isTestEnvironment(processEnv) THEN "mock"
    ELSE IF isDevelopmentEnvironment(processEnv) THEN "auto"
    ELSE "production"

UnknownTypeError(managerType) ==
    [kind |-> "unknown-type", message |-> "Unknown Claude manager type",
     type |-> managerType]

\* what a factory method hands back: the class of the manager it constructed,
\* or the error it threw
Constructed(manager) == [returned |-> manager, error |-> NoError]

Thrown(error) == [returned |-> "threw", error |-> error]

create(config, processEnv) ==
    LET managerType == determineManagerType(config, processEnv) IN
    IF managerType = "production" THEN Constructed("EnhancedClaudeManager")
    ELSE IF managerType = "mock" THEN Constructed("MockClaudeManager")
    ELSE Thrown(UnknownTypeError(managerType))

createProduction == Constructed("EnhancedClaudeManager")

createMock == Constructed("MockClaudeManager")

\* createAuto once isClaudeCodeAvailable has resolved
createAuto(processEnv, isClaudeAvailable) ==
    IF isClaudeAvailable /\ ~isTestEnvironment(processEnv)
    THEN Constructed("EnhancedClaudeManager")
    ELSE Constructed("MockClaudeManager")

\* a caller of the factory with one FactoryConfig in one environment
FactoryCaller(input) ==
    [ids |-> {}, timeouts |-> {0}, chunks |-> 0, observed |-> TRUE,
     killThrows |-> FALSE, names |-> {}, input |-> input]

InitFactory ==
    \E config \in FactoryConfigs, processEnv \in ProcessEnvironments :
        InitWith(FactoryCaller([config |-> config, processEnv |-> processEnv]))

\* a call of a factory method and what it handed back
FactoryCall(op, outcome) ==
    [op |-> op, id |-> "", command |-> NoCommand, returned |-> outcome.returned,
     error |-> outcome.error]

Create ==
    /\ lastCall' = FactoryCall("create", create(env.input.config, env.input.processEnv))
    /\ UNCHANGED <<managerVars, outputStreamer>>

CreateProduction ==
    /\ lastCall' = FactoryCall("createProduction", createProduction)
    /\ UNCHANGED <<managerVars, outputStreamer>>

CreateMock ==
    /\ lastCall' = FactoryCall("createMock", createMock)
    /\ UNCHANGED <<managerVars, outputStreamer>>

CreateAuto(isClaudeAvailable) ==
    /\ lastCall' = FactoryCall("createAuto",
                               createAuto(env.input.processEnv, isClaudeAvailable))
    /\ UNCHANGED <<managerVars, outputStreamer>>

FactoryNext ==
    \/ Create
    \/ CreateProduction
    \/ CreateMock
    \/ \E isClaudeAvailable \in BOOLEAN : CreateAuto(isClaudeAvailable)

FactorySpec == InitFactory /\ [][FactoryNext]_vars

(* ------------------------------- claims -------------------------------- *)

Records == DOMAIN claudeProcess

Settled(id) == calls[id].state \in {"resolved", "rejected"}

\* C1: a record's status only moves from running to completed, failed or
\* killed, and a status that is completed, failed or killed never changes again
C1_StatusMonotonic ==
    [][\A id \in Records :
          /\ claudeProcess[id].status \in Terminal
                => claudeProcess'[id].status = claudeProcess[id].status
          /\ claudeProcess'[id].status \in Terminal \cup {"running"}]_vars

\* C2: every executeCommand call that got past its checks eventually settles,
\* its record then holds one terminal status for good, and getProcess never
\* reports running for a settled call
C2_SettlesOnce ==
    /\ \A id \in Ids : (calls[id].state = "pending") ~> Settled(id)
    /\ [][\A id \in Records :
             claudeProcess[id].status \in Terminal
                => claudeProcess'[id].status = claudeProcess[id].status]_vars
    /\ [](\A id \in Ids :
             Settled(id) /\ id \in processes => claudeProcess[id].status # "running")

\* C3: a command for which the sanitizer reports a violation is rejected with
\* a sanitization error carrying the violations; no child is spawned and no
\* record is created
C3_RejectedNeverSpawns ==
    [][/\ lastCall'.op \in {"executeCommand", "executeStreamingCommand"}
       /\ ~isShuttingDown
       /\ sanitizeClaudeCommand(lastCall'.command.command, lastCall'.command.args,
                                lastCall'.command.workingDirectory).violations # <<>>
       => /\ lastCall'.returned = "rejected"
          /\ lastCall'.error.kind = "sanitization"
          /\ lastCall'.error.violations
                = sanitizeClaudeCommand(lastCall'.command.command, lastCall'.command.args,
                                        lastCall'.command.workingDirectory).violations
          /\ UNCHANGED <<childProcess, childProcesses, claudeProcess, processes, calls>>]_vars

C3_Witness ==
    /\ lastCall.op = "executeStreamingCommand"
    /\ lastCall.error.kind = "sanitization"
    /\ lastCall.id \notin Records

\* C4: a child that exits with code 0 before a timeout settled the call makes
\* executeCommand resolve with its stdout chunks concatenated in arrival
\* order, and the record completed with exit code 0
C4_ResolvesWithStdout ==
    \A id \in Ids :
        childProcess[id].exit = Some(<<Some(0), None>>) /\ calls[id].timer # "fired"
        => /\ calls[id].state = "resolved"
           /\ calls[id].result = Join(childProcess[id].stdout)
           /\ claudeProcess[id].status = "completed"
           /\ claudeProcess[id].exitCode = Some(0)

C4_Witness ==
    \E id \in Ids :
        /\ childProcess[id].exit = Some(<<Some(0), None>>)
        /\ Len(childProcess[id].stdout) = 2
        /\ calls[id].state = "resolved"

\* C5: a child that exits with a nonzero code before any timeout makes
\* executeCommand reject with an error carrying the code, the signal if any
\* and the accumulated stderr, and the record failed
C5_RejectsWithExitError ==
    \A id \in Ids :
        /\ childProcess[id].exit # None
        /\ childProcess[id].exit # Some(<<Some(0), None>>)
        /\ calls[id].timer # "fired"
        => /\ calls[id].state = "rejected"
           /\ calls[id].error.kind = "exit"
           /\ calls[id].error.code = childProcess[id].exit[1][1]
           /\ calls[id].error.signal = childProcess[id].exit[1][2]
           /\ calls[id].error.stderr = Join(childProcess[id].stderr)
           /\ claudeProcess[id].status = "failed"

C5_Witness ==
    \E id \in Ids :
        /\ childProcess[id].exit = Some(<<Some(1), None>>)
        /\ Len(childProcess[id].stderr) = 2
        /\ calls[id].state = "rejected"
        /\ calls[id].error.kind = "exit"

\* C6: when the deadline (the command's timeout, else the manager's default)
\* expires on a child that has neither exited nor errored, the child gets
\* SIGTERM, the call rejects with a timeout error and the record is failed;
\* the timer is armed from spawn, and cancelled for good once the child exits
\* or errors first
C6_Timeout ==
    \A id \in Ids :
        /\ calls[id].timer = "fired"
           => /\ "SIGTERM" \in childProcess[id].signals
              /\ calls[id].state = "rejected"
              /\ calls[id].error =
                    TimeoutError(IF claudeProcess[id].command.timeout # 0
                                 THEN claudeProcess[id].command.timeout
                                 ELSE commandTimeout)
              /\ claudeProcess[id].status = "failed"
        /\ calls[id].state = "pending" /\ childProcess[id].state = "alive"
           => calls[id].timer = "armed"
        /\ childProcess[id].state \in {"exited", "errored"}
              /\ calls[id].error.kind # "timeout"
           => calls[id].timer = "cleared"

C6_Witness ==
    \E id \in Ids :
        /\ calls[id].timer = "fired"
        /\ calls[id].error = TimeoutError(100)
        /\ childProcess[id].state = "alive"
        /\ claudeProcess[id].status = "failed"

\* C7: when the OS cannot start the child, the call rejects with the spawn
\* error and the record is failed, for executeCommand and for
\* executeStreamingCommand alike
C7_SpawnErrorRejects ==
    \A id \in Ids :
        childProcess[id].state = "errored"
        => /\ calls[id].state = "rejected"
           /\ calls[id].error = SpawnError
           /\ claudeProcess[id].status = "failed"

\* C8: killProcess on a running record returns true, and on return the record
\* is killed with a completion timestamp, a spawned child has been sent
\* SIGTERM, the stream of the id is closed and the record is not active
C8_KillRunning ==
    [][\A id \in Ids :
          /\ lastCall'.op = "killProcess" /\ lastCall'.id = id
          /\ id \in processes /\ claudeProcess[id].status = "running"
          => /\ lastCall'.returned = "true"
             /\ claudeProcess'[id].status = "killed"
             /\ claudeProcess'[id].endTime # None
             /\ childProcess[id].state = "alive"
                   => "SIGTERM" \in childProcess'[id].signals
             /\ id \notin outputStreamer'.activeStreams
             /\ id \notin getActiveProcesses']_vars

C8_Witness ==
    /\ lastCall.op = "killProcess" /\ lastCall.returned = "true"
    /\ calls[lastCall.id].streaming
    /\ "SIGTERM" \in childProcess[lastCall.id].signals
    /\ claudeProcess[lastCall.id].status = "killed"

\* C9: after killProcess returned true, a child that has not exited when the
\* 5-second grace period ends is sent SIGKILL
C9_ForcedKill ==
    \A id \in Ids :
        forceKill[id].state = "fired" /\ childProcess[id].state = "alive"
        => "SIGKILL" \in childProcess[id].signals

\* C10: killProcess returns false and changes nothing when the id is unknown
\* or its record is completed, failed or killed
C10_KillNoOp ==
    [][\A id \in Ids :
          /\ lastCall'.op = "killProcess" /\ lastCall'.id = id
          /\ id \notin processes \/ claudeProcess[id].status \in Terminal
          => /\ lastCall'.returned = "false"
             /\ UNCHANGED <<processes, claudeProcess, childProcesses, childProcess,
                            isShuttingDown, calls, outputStreamer, forceKill>>]_vars

C10_Witness ==
    /\ lastCall.op = "killProcess" /\ lastCall.returned = "false"
    /\ lastCall.id \in processes
    /\ claudeProcess[lastCall.id].status = "failed"
    /\ childProcess[lastCall.id].state = "alive"

\* C11: once shutdown has begun isReady stays false, and every executeCommand
\* or executeStreamingCommand call made from then on is rejected with the
\* shutdown error; it spawns no child, creates no record, opens no stream and
\* registers no subscriber
C11_ShutdownRejects ==
    [][isShuttingDown
       => /\ isShuttingDown' /\ ~isReady'
          /\ lastCall'.op \in {"executeCommand", "executeStreamingCommand"}
             => /\ lastCall'.returned = "rejected"
                /\ lastCall'.error = ShutdownError
                /\ UNCHANGED <<processes, claudeProcess, childProcesses, childProcess,
                               calls, outputStreamer, emitted>>]_vars

C11_Witness ==
    /\ isShuttingDown /\ ~isReady
    /\ lastCall.op = "executeStreamingCommand"
    /\ lastCall.command.command = claude
    /\ lastCall.returned = "rejected" /\ lastCall.error = ShutdownError

\* C12: when shutdown has completed, every record that was running when it
\* began is killed and its spawned child has been sent SIGTERM, the streamer
\* has no open stream, no buffer and no subscriber, the record table is empty
\* (getActiveProcesses is empty, getProcess finds no id); and no record is
\* running once the manager is shutting down
C12_ShutdownKillsAndClears ==
    /\ [][~isShuttingDown /\ lastCall'.op = "shutdown"
          => /\ \A id \in processes :
                   claudeProcess[id].status = "running"
                   => /\ claudeProcess'[id].status = "killed"
                      /\ childProcess[id].state = "alive"
                            => "SIGTERM" \in childProcess'[id].signals
             /\ outputStreamer'.activeStreams = {}
             /\ DOMAIN outputStreamer'.buffers = {}
             /\ \A n \in EventNames : outputStreamer'.listeners[n] = 0
             /\ processes' = {}
             /\ getActiveProcesses' = {}
             /\ \A id \in Ids : getProcess(id)' = None]_vars
    /\ [](isShuttingDown => \A id \in Records : claudeProcess[id].status # "running")

C12_Witness ==
    /\ lastCall.op = "shutdown" /\ isShuttingDown /\ processes = {}
    /\ \E id \in Records :
          /\ calls[id].streaming /\ calls[id].state = "pending"
          /\ claudeProcess[id].status = "killed"
          /\ "SIGTERM" \in childProcess[id].signals
          /\ outputStreamer.listeners[formatProcessEvent("output", id)] = 0

\* C13: shutdown runs to completion: it returns normally with the streamer shut
\* down and the records and child handles cleared, also when
\* ChildProcess.kill throws for one of the running processes
C13_ShutdownCompletes ==
    [][~isShuttingDown /\ lastCall'.op = "shutdown"
       => /\ lastCall'.returned = "void"
          /\ outputStreamer'.activeStreams = {}
          /\ DOMAIN outputStreamer'.buffers = {}
          /\ \A n \in EventNames : outputStreamer'.listeners[n] = 0
          /\ processes' = {}
          /\ childProcesses' = {}]_vars

\* C14: while the record of id X is running, executeCommand for a command that
\* passes the sanitizer and has the same id X is rejected with the duplicate id
\* error; no second child is spawned, and the record of X and its child
\* handle stay as they were
C14_DuplicateRejected ==
    [][\A id \in Ids :
          /\ lastCall'.op = "executeCommand" /\ lastCall'.id = id
          /\ sanitizeClaudeCommand(lastCall'.command.command, lastCall'.command.args,
                                   lastCall'.command.workingDirectory).isValid
          /\ id \in processes /\ claudeProcess[id].status = "running"
          => /\ lastCall'.returned = "rejected"
             /\ lastCall'.error = DuplicateIdError(id)
             /\ UNCHANGED <<processes, claudeProcess, childProcesses, childProcess,
                            calls>>]_vars

C14_Witness ==
    /\ lastCall.op = "executeCommand"
    /\ lastCall.error = DuplicateIdError(lastCall.id)
    /\ lastCall.id \in processes
    /\ claudeProcess[lastCall.id].status = "running"
    /\ childProcess[lastCall.id].state = "alive"

\* C15: when executeStreamingCommand has returned or raised (success,
\* sanitization rejection, duplicate id, timeout, nonzero exit, spawn error,
\* also after killProcess), the handler it registered is registered no more
\* and no stream is open for the id of its command
C15_StreamingCleansUp ==
    /\ [](\A id \in Ids :
             calls[id].streaming /\ calls[id].streamState \in {"resolved", "rejected"}
             => /\ outputStreamer.listeners[formatProcessEvent("output", id)] = 0
                /\ id \notin outputStreamer.activeStreams)
    /\ [][lastCall'.op = "executeStreamingCommand" /\ lastCall'.returned = "rejected"
          => /\ outputStreamer'.listeners = outputStreamer.listeners
             /\ lastCall'.id \notin outputStreamer'.activeStreams]_vars

C15_Witness ==
    \E id \in Ids :
        /\ calls[id].streaming /\ calls[id].streamState = "rejected"
        /\ calls[id].error.kind = "exit"
        /\ claudeProcess[id].status = "failed"
        /\ "SIGTERM" \in childProcess[id].signals
        /\ outputStreamer.listeners[formatProcessEvent("output", id)] = 0

\* C16: a streamed command whose child exits with code 0 returns from
\* executeStreamingCommand the text executeCommand returns for the same
\* child output (the accumulated stdout), whatever the interleaving of stdout
\* and stderr chunks and the number of chunks relative to maxBufferSize
C16_StreamedEqualsAccumulated ==
    \A id \in Ids :
        calls[id].streaming /\ calls[id].streamState = "resolved"
        => /\ calls[id].result = Join(childProcess[id].stdout)
           /\ calls[id].streamResult = calls[id].result

\* the entries of emitted[id] the handlers registered by onProcessOutput(id, .)
\* were invoked with: what the onOutput subscriber of the id has received
Received(id) ==
    SelectSeq(emitted[id], LAMBDA e : Invoked(e, formatProcessEvent("output", id)) > 0)

\* the entries whose event has one of the types
OfType(entries, types) == SelectSeq(entries, LAMBDA e : e.event.type \in types)

RECURSIVE Data(_)
\* the payloads of the entries, in their order
Data(entries) ==
    IF entries = <<>> THEN <<>> ELSE <<Head(entries).event.data>> \o Data(Tail(entries))

\* C17: when the child of a streamed command has written its chunks and exited
\* with code 0, the onOutput subscriber has received all the chunks in order
\* and then exactly one exit event, with exit code 0; and every exit or error
\* event is emitted to the subscribers that receive the output chunks, the
\* global ones and those of the process
C17_SubscriberSeesExit ==
    \A id \in Ids :
        /\ calls[id].streaming /\ childProcess[id].exit = Some(<<Some(0), None>>)
           => LET r == Received(id) IN
              /\ Data(OfType(r, {"stdout"})) = childProcess[id].stdout
              /\ Data(OfType(r, {"stderr"})) = childProcess[id].stderr
              /\ Len(OfType(r, {"exit"})) = 1
              /\ r[Len(r)].event = StreamEvent("exit", ExitMessage, Some(0))
        /\ \A k \in 1..Len(emitted[id]) :
              emitted[id][k].event.type \in {"exit", "error"}
              => {"output", formatProcessEvent("output", id)} \subseteq emitted[id][k].channels

\* the chunk a step adds to a sequence of chunks, if it adds one
Arrived(chunks, chunksAfter) ==
    IF chunksAfter # chunks THEN Some(chunksAfter[Len(chunksAfter)]) ELSE None

\* the entries a step adds to emitted[id]
EmittedBy(id, emittedAfter) ==
    SubSeq(emittedAfter[id], Len(emitted[id]) + 1, Len(emittedAfter[id]))

\* C18: for one process id, events are delivered in the order they arrive:
\* a stdout or stderr chunk that arrives while the stream of the id is open is
\* delivered to the subscribers of the id, after everything delivered before,
\* and is added to the accumulated stdout or stderr; and nothing is delivered
\* for an id after its exit event
C18_OrderedDelivery ==
    [][\A id \in Ids :
          LET out == Arrived(childProcess[id].stdout, childProcess'[id].stdout)
              err == Arrived(childProcess[id].stderr, childProcess'[id].stderr)
              new == EmittedBy(id, emitted')
          IN  /\ SubSeq(emitted'[id], 1, Len(emitted[id])) = emitted[id]
              /\ out # None
                 => /\ calls'[id].output = calls[id].output \o out[1]
                    /\ id \in outputStreamer.activeStreams
                       => /\ Len(new) = 1
                          /\ Invoked(new[1], formatProcessEvent("output", id)) > 0
                          /\ new[1].event = StreamEvent("stdout", out[1], None)
              /\ err # None
                 => /\ calls'[id].errorOutput = calls[id].errorOutput \o err[1]
                    /\ id \in outputStreamer.activeStreams
                       => /\ Len(new) = 1
                          /\ Invoked(new[1], formatProcessEvent("output", id)) > 0
                          /\ new[1].event = StreamEvent("stderr", err[1], None)
              /\ OfType(emitted[id], {"exit"}) # <<>> => new = <<>>]_vars

C18_Witness ==
    \E id \in Ids :
        /\ Len(emitted[id]) = 3 /\ Len(Received(id)) = 2
        /\ Received(id)[1].event = StreamEvent("stderr", "a", None)
        /\ Received(id)[2].event = StreamEvent("stdout", "b", None)
        /\ emitted[id][3].event.type = "exit"
        /\ calls[id].output = "b" /\ calls[id].errorOutput = "a"

\* what the manager and the streamer hold for one id: table entry, record,
\* child handle, stream, buffer, subscribers
PerId(id) ==
    <<id \in processes,
      IF id \in DOMAIN claudeProcess THEN Some(claudeProcess[id]) ELSE None,
      id \in childProcesses, childProcess[id],
      id \in outputStreamer.activeStreams,
      IF id \in DOMAIN outputStreamer.buffers THEN Some(outputStreamer.buffers[id]) ELSE None,
      [t \in {"output"} \cup EventTypes |->
          outputStreamer.listeners[formatProcessEvent(t, id)]]>>

\* C19: a call or event for one id (child exit, spawn error, timeout,
\* killProcess, a rejected execute call) changes the record, child handle,
\* stream, buffer and subscribers of no other id; and no such failure stops
\* the manager, which goes on accepting and running commands
C19_Independent ==
    /\ [][isShuttingDown' = isShuttingDown
          => \A i, j \in Ids :
                i # j /\ PerId(i)' # PerId(i) => PerId(j)' = PerId(j)]_vars
    /\ [](~crashed)

\* C20: a running record has no completion timestamp and no exit code, a
\* completed, failed or killed record has both, only failed and killed records
\* carry an error text, and a completed record has exit code 0
C20_RecordFields ==
    \A id \in Records :
        LET process == claudeProcess[id] IN
        /\ process.status = "running" => process.endTime = None /\ process.exitCode = None
        /\ process.status \in Terminal => process.endTime # None /\ process.exitCode # None
        /\ process.error # None => process.status \in {"failed", "killed"}
        /\ process.status = "completed" => process.exitCode = Some(0) /\ process.error = None

\* C21: a child whose command timed out does not stay alive for ever, also
\* when it ignores SIGTERM
C21_TimedOutChildTerminated ==
    \A id \in Ids :
        (calls[id].timer = "fired" /\ childProcess[id].state = "alive")
            ~> (childProcess[id].state # "alive")

\* the stream calls that hand data to an open stream
Streamed(call) == call.op \in {"streamOutput", "streamError"} /\ call.events # <<>>

RECURSIVE Concatenation(_)
\* the chunks one after another, the oldest first
Concatenation(chunks) ==
    IF chunks = <<>> THEN ""
    ELSE Concatenation(SubSeq(chunks, 1, Len(chunks) - 1)) \o chunks[Len(chunks)]

\* the n most recent of the chunks, the oldest of them first
MostRecent(chunks, n) ==
    [k \in 1..(IF Len(chunks) < n THEN Len(chunks) ELSE n) |->
        chunks[Len(chunks) - (IF Len(chunks) < n THEN Len(chunks) ELSE n) + k]]

C23_StopReleasesBuffer ==
    [][\A id \in Ids :
          /\ (lastCall'.op = "stopStreaming" /\ lastCall'.id = id
                  /\ isStreaming(outputStreamer, id))
                => /\ ~isStreaming(outputStreamer', id)
                   /\ lastCall'.notified = <<Lifecycle("stream-stopped", id)>>
                   /\ id \notin DOMAIN outputStreamer'.buffers
          /\ (isStreaming(outputStreamer, id) /\ ~isStreaming(outputStreamer', id))
                => id \notin DOMAIN outputStreamer'.buffers]_vars

\* the calls that stream an event of a process
StreamOps == {"streamOutput", "streamError", "streamProcessExit"}

NamesOfOthers(id) ==
    {formatProcessEvent(t, other) : t \in {"output"} \cup EventTypes, other \in Ids \ {id}}

\* C25: streamOutput on an open stream emits one event; when its handlers run
\* the chunk is already the last one of the buffer; every handler registered
\* for all output, for the output of the id and for the type of the chunk is
\* invoked once, and no handler registered for another id is invoked
C25_StreamOutputNotifies ==
    [][\A id \in Ids :
          (lastCall'.op = "streamOutput" /\ lastCall'.id = id
              /\ isStreaming(outputStreamer, id))
            => /\ Len(lastCall'.events) = 1
               /\ LET e == lastCall'.events[1]
                  IN  /\ e.buffer # <<>>
                      /\ e.buffer[Len(e.buffer)] = e.event.data
                      /\ e.buffer = getBuffer(outputStreamer', id)
                      /\ \A name \in {"output", formatProcessEvent("output", id),
                                      e.event.type} :
                             Invoked(e, name) = outputStreamer.listeners[name]
                      /\ \A name \in NamesOfOthers(id) : Invoked(e, name) = 0]_vars

\* a chunk was streamed while a handler was registered for all output, for
\* the output of the id, for the type of the chunk and for another id: the
\* first three were invoked
C25_Witness ==
    \E id \in Ids, other \in Ids :
        /\ other # id
        /\ lastCall.op = "streamOutput" /\ lastCall.id = id
        /\ lastCall.events # <<>>
        /\ Invoked(lastCall.events[1], "output") = 1
        /\ Invoked(lastCall.events[1], formatProcessEvent("output", id)) = 1
        /\ Invoked(lastCall.events[1], lastCall.events[1].event.type) = 1
        /\ outputStreamer.listeners[formatProcessEvent("output", other)] = 1

\* C26: streamOutput, streamError and streamProcessExit for an id without an
\* open stream leave the streamer as it is (streams, buffers, subscribers),
\* emit no event and no notification, and return normally
C26_ClosedStreamNoOp ==
    [][\A id \in Ids :
          (lastCall'.op \in StreamOps /\ lastCall'.id = id
              /\ ~isStreaming(outputStreamer, id))
            => /\ outputStreamer' = outputStreamer
               /\ lastCall'.events = <<>>
               /\ lastCall'.notified = <<>>
               /\ lastCall'.returned = "void"]_vars

\* streamOutput was called for an id whose stream is closed while its buffer
\* held chunks and a handler was registered for all output
C26_Witness ==
    \E id \in Ids :
        /\ lastCall.op = "streamOutput" /\ lastCall.id = id
        /\ lastCall.events = <<>>
        /\ ~isStreaming(outputStreamer, id)
        /\ getBuffer(outputStreamer, id) # <<>>
        /\ outputStreamer.listeners["output"] = 1

\* what a caller can observe of the manager: the records, the open streams,
\* buffers and subscribers, and the signals sent to the children
Observable ==
    <<processes, claudeProcess, outputStreamer,
      [i \in Ids |-> childProcess[i].signals], [i \in Ids |-> childProcess[i].killed]>>

\* C27: a killProcess(id) directly after a killProcess(id), and a shutdown
\* directly after a shutdown, change nothing a caller can observe; a second
\* stopStreaming(id) leaves the streamer as the first left it and emits no
\* second notification
C27_Idempotent ==
    /\ [][/\ (lastCall.op = "killProcess" /\ lastCall'.op = "killProcess"
                  /\ lastCall'.id = lastCall.id)
                => Observable' = Observable
          /\ (lastCall.op = "shutdown" /\ lastCall'.op = "shutdown")
                => Observable' = Observable]_vars
    /\ [](\A id \in Ids :
            LET once == stopStreaming(outputStreamer, id)
            IN  /\ stopStreaming(once, id) = once
                /\ stopStreamingEmits(once, id) = <<>>)

\* killProcess was called for a record that killProcess had killed and whose
\* child had been sent SIGTERM: the call returned false
C27_Witness ==
    \E id \in Ids :
        /\ lastCall.op = "killProcess" /\ lastCall.id = id
        /\ lastCall.returned = "false"
        /\ id \in processes /\ claudeProcess[id].status = "killed"
        /\ "SIGTERM" \in childProcess[id].signals

\* C28: the streamer's shutdown leaves no open stream, no buffer and no
\* handler under any name, whatever the state it is called in; a stream call
\* right after it emits nothing, and a shutdown right after it changes nothing
\* and returns normally
C28_StreamerShutdown ==
    [][/\ lastCall'.op = "shutdown"
            => /\ outputStreamer'.activeStreams = {}
               /\ DOMAIN outputStreamer'.buffers = {}
               /\ \A n \in EventNames : outputStreamer'.listeners[n] = 0
               /\ \A id \in Ids : getFullOutput(outputStreamer', id) = ""
               /\ lastCall'.returned = "void"
       /\ (lastCall.op = "shutdown" /\ lastCall'.op = "shutdown")
            => /\ outputStreamer' = outputStreamer
               /\ lastCall'.notified = <<>>
       /\ (lastCall.op = "shutdown" /\ lastCall'.op \in StreamOps)
            => /\ lastCall'.events = <<>>
               /\ outputStreamer' = outputStreamer]_vars

\* shutdown was called with the streams of two processes open and has closed
\* both
C28_Witness ==
    /\ lastCall.op = "shutdown"
    /\ Len(lastCall.notified) = 2
    /\ outputStreamer.activeStreams = {}
    /\ DOMAIN outputStreamer.buffers = {}

SanitizerOps == {"sanitizeCommand", "sanitizeClaudeCommand"}

\* the findings that are warnings: risky CLI flags, key-like material, a
\* prompt-injection phrase, excessive repetition, a sensitive working directory
WarningClass ==
    {"Potentially dangerous Claude CLI argument",
     "File operation detected in Claude argument",
     "Argument may contain sensitive key material",
     "Potential prompt injection detected in argument",
     "Excessive character repetition in argument (potential DoS)",
     "Working directory points to sensitive system location"}

\* C29: the result of the sanitizer is valid exactly when its list of
\* violations is empty, whatever the command, arguments, working directory and
\* options; the findings of the warning class are in the list of warnings, never
\* in the list of violations, and nothing else is in the list of warnings
C29_ValidIffNoViolation ==
    lastCall.op \in SanitizerOps
        => LET result == lastCall.result IN
           /\ result.isValid <=> result.violations = <<>>
           /\ \A k \in 1..Len(result.violations) :
                  result.violations[k][1] \notin WarningClass
           /\ \A k \in 1..Len(result.warnings) : result.warnings[k][1] \in WarningClass

\* a valid result with two warnings or more
C29_Witness ==
    /\ lastCall.op \in SanitizerOps
    /\ lastCall.result.isValid
    /\ Len(lastCall.result.warnings) >= 2
    /\ lastCall.result.violations = <<>>

\* an argument names a dangerous file-management verb as a word of its own
HasDangerousVerb(arg) ==
    \E i \in 1..Len(arg) :
        \E verb \in {<<"r", "m">>, <<"d", "e", "l">>, <<"f", "o", "r", "m", "a", "t">>,
                      <<"m", "k", "f", "s">>, <<"d", "d">>} :
            LET j == i + Len(verb) - 1 IN
            /\ i = 1 \/ arg[i - 1] = " "
            /\ j <= Len(arg)
            /\ j = Len(arg) \/ arg[j + 1] = " "
            /\ ToLowerCase(SubSeq(arg, i, j)) = verb

\* an argument names a path in a sensitive system directory
HasSensitiveTarget(arg) ==
    \E path \in {<<"/", "e", "t", "c">>, <<"/", "r", "o", "o", "t">>,
                 <<"/", "s", "y", "s">>, <<"/", "b", "o", "o", "t">>,
                 <<"/", "d", "e", "v">>} :
        Includes(arg, path)

\* the arguments combine a dangerous verb with a sensitive target
DangerousArguments(args) ==
    /\ \E k \in 1..Len(args) : HasDangerousVerb(args[k])
    /\ \E k \in 1..Len(args) : HasSensitiveTarget(args[k])

\* C30: the sanitizer's result for arguments that combine a dangerous verb
\* with a sensitive target, such as 'rm -rf /etc', is invalid, and no process
\* record exists for a command with such arguments
C30_DangerousArgumentsRejected ==
    /\ (lastCall.op \in SanitizerOps /\ DangerousArguments(lastCall.command.args))
           => ~lastCall.result.isValid
    /\ \A id \in processes : ~DangerousArguments(claudeProcess[id].command.args)

\* the literal 'sk-ant-', the shape of a secret token
SecretTokenShape == <<"s", "k", "-", "a", "n", "t", "-">>

\* C31: whenever an argument of a sanitizer call contains a secret-token-shaped
\* literal ('sk-ant-'), the result is invalid and its violations name that
\* argument as an exposed API key, under the permissive options, the strict
\* options and the options of any caller
C31_SecretTokenIsFatal ==
    lastCall.op \in SanitizerOps
        => \A k \in 1..Len(lastCall.command.args) :
               Includes(lastCall.command.args[k], SecretTokenShape)
                   => /\ ~lastCall.result.isValid
                      /\ \E v \in 1..Len(lastCall.result.violations) :
                             lastCall.result.violations[v]
                                 = <<"Argument contains an exposed API key", k - 1>>

\* under the permissive options the exposed key is the only violation of the call
C31_Witness ==
    /\ lastCall.op = "sanitizeClaudeCommand"
    /\ lastCall.options = claudeOptions
    /\ \E k \in 1..Len(lastCall.command.args) :
           Includes(lastCall.command.args[k], SecretTokenShape)
    /\ ~lastCall.result.isValid
    /\ lastCall.result.violations = << <<"Argument contains an exposed API key", 0>> >>

\* the argument is nothing but a reference $VAR with an uppercase identifier
IsEnvironmentReference(arg) ==
    /\ Len(arg) >= 2
    /\ arg[1] = "$"
    /\ arg[2] \in Range(UpperCase) \cup {"_"}
    /\ \A i \in 3..Len(arg) : arg[i] \in Range(UpperCase) \cup Digits \cup {"_"}

\* the violations a reference to an environment variable can cause
ReferenceViolations ==
    {"Environment variable reference in argument",
     "Shell metacharacters detected in argument"}

\* C32: an argument that is a reference to an environment variable ($VAR) is
\* rejected with an environment-variable violation when the options do not
\* allow environment variables, and causes no violation when they allow them,
\* as the options of sanitizeClaudeCommand do
C32_EnvironmentReferences ==
    lastCall.op \in SanitizerOps
        => \A k \in 1..Len(lastCall.command.args) :
               IsEnvironmentReference(lastCall.command.args[k])
                   => IF lastCall.options.allowEnvironmentVariables
                      THEN \A v \in 1..Len(lastCall.result.violations) :
                               ~ /\ lastCall.result.violations[v][1] \in ReferenceViolations
                                 /\ lastCall.result.violations[v][2] = k - 1
                      ELSE /\ ~lastCall.result.isValid
                           /\ \E v \in 1..Len(lastCall.result.violations) :
                                  lastCall.result.violations[v]
                                      = <<"Environment variable reference in argument",
                                          k - 1, lastCall.command.args[k]>>

\* a call with the command 'claude' or 'ls', no longer than the options allow,
\* no working directory and one argument made of the letter a alone
CleanButForLength(call) ==
    /\ call.command.command \in {claude, <<"l", "s">>}
    /\ Len(call.command.command) <= call.options.maxCommandLength
    /\ call.command.workingDirectory = None
    /\ Len(call.command.args) = 1
    /\ \A i \in 1..Len(call.command.args[1]) : call.command.args[1][i] = "a"

\* C33: for an otherwise clean command, an argument of exactly
\* maxArgumentLength characters gives a valid result without violations, and an
\* argument of maxArgumentLength + 1 characters gives an invalid result whose
\* only violation is the length of that argument, for the maxArgumentLength of
\* the options of the call, whichever they are
C33_ArgumentLengthBoundary ==
    (lastCall.op \in SanitizerOps /\ CleanButForLength(lastCall))
        => LET length == Len(lastCall.command.args[1])
               maxArgumentLength == lastCall.options.maxArgumentLength
           IN  /\ length = maxArgumentLength
                   => lastCall.result.isValid /\ lastCall.result.violations = <<>>
               /\ length = maxArgumentLength + 1
                   => /\ ~lastCall.result.isValid
                      /\ lastCall.result.violations
                             = << <<"Argument too long", 0, length, maxArgumentLength>> >>

\* the strict sanitizer's limit: an argument of 100 characters is valid for it
C33_Witness ==
    /\ lastCall.op = "sanitizeCommand"
    /\ CleanButForLength(lastCall)
    /\ Len(lastCall.command.args[1]) = lastCall.options.maxArgumentLength
    /\ lastCall.options = strictOptions
    /\ lastCall.result.isValid

\* the prefixes of the sensitive system locations
SensitivePrefixes ==
    {<<"/", "e", "t", "c">>, <<"/", "p", "r", "o", "c">>, <<"/", "s", "y", "s">>,
     <<"/", "r", "o", "o", "t">>, <<"/", "b", "o", "o", "t">>, <<"/", "d", "e", "v">>,
     <<"/", "v", "a", "r", "/", "l", "o", "g">>}

\* the call names a working directory under a sensitive prefix
SensitiveDirectoryCall(call) ==
    /\ call.command.workingDirectory \notin {None, Some(<<>>)}
    /\ \E prefix \in SensitivePrefixes :
           /\ Len(prefix) <= Len(call.command.workingDirectory[1])
           /\ SubSeq(call.command.workingDirectory[1], 1, Len(prefix)) = prefix

\* a call that is valid, without violations, when it names no working
\* directory: 'claude', 'rm' or 'Rm' within the command length the options
\* allow, without arguments, and no '..' in the working directory
CleanButForDirectory(call) ==
    /\ call.command.command \in {claude, <<"r", "m">>, <<"R", "m">>}
    /\ Len(call.command.command) <= call.options.maxCommandLength
    /\ call.command.args = <<>>
    /\ call.command.workingDirectory # None
           => \A i \in 1..(Len(call.command.workingDirectory[1]) - 1) :
                  ~(call.command.workingDirectory[1][i] = "."
                        /\ call.command.workingDirectory[1][i + 1] = ".")

\* the command is one of the dangerous file-management commands
DangerousCommand(call) ==
    call.command.command \in {<<"r", "m">>, <<"R", "m">>}

SensitiveWarning == <<"Working directory points to sensitive system location">>

FileSystemViolation == <<"File system access disabled but working directory specified">>

\* with file-system access disallowed a working directory is a violation
DirectoryRejectedWithoutFileSystem ==
    (/\ lastCall.op \in SanitizerOps
     /\ lastCall.command.workingDirectory \notin {None, Some(<<>>)}
     /\ ~lastCall.options.allowFileSystemAccess)
        => /\ ~lastCall.result.isValid
           /\ \E v \in 1..Len(lastCall.result.violations) :
                  lastCall.result.violations[v] = FileSystemViolation

\* C34 as stated: with file-system access allowed, a working directory under a
\* sensitive prefix adds a warning and no violation and leaves any otherwise
\* clean command valid; with file-system access disallowed a working directory
\* is a violation
C34_SensitiveDirectoryWarns ==
    /\ (/\ lastCall.op \in SanitizerOps
        /\ SensitiveDirectoryCall(lastCall)
        /\ CleanButForDirectory(lastCall)
        /\ lastCall.options.allowFileSystemAccess)
           => /\ lastCall.result.isValid
              /\ lastCall.result.violations = <<>>
              /\ lastCall.result.warnings = <<SensitiveWarning>>
    /\ DirectoryRejectedWithoutFileSystem

\* C34, amended: with file-system access allowed, a working directory under a
\* sensitive prefix adds a warning; it adds no violation and leaves an
\* otherwise clean command valid unless the command is a dangerous
\* file-management command, for which the result is invalid with the
\* dangerous-operation violation; with file-system access disallowed a
\* non-empty working directory is a violation
C34_SensitiveDirectoryWarnsUnlessDangerous ==
    /\ (/\ lastCall.op \in SanitizerOps
        /\ SensitiveDirectoryCall(lastCall)
        /\ CleanButForDirectory(lastCall)
        /\ lastCall.options.allowFileSystemAccess)
           => /\ lastCall.result.warnings = <<SensitiveWarning>>
              /\ IF DangerousCommand(lastCall)
                 THEN /\ ~lastCall.result.isValid
                      /\ lastCall.result.violations
                             = << <<"Attempted dangerous file operation on sensitive system directory">> >>
                 ELSE /\ lastCall.result.isValid
                      /\ lastCall.result.violations = <<>>
    /\ DirectoryRejectedWithoutFileSystem

\* 'claude' in the working directory '/etc/foo' is valid with the warning
C34_Witness ==
    /\ lastCall.op \in SanitizerOps
    /\ lastCall.command.command = claude
    /\ lastCall.command.workingDirectory = Some(<<"/", "e", "t", "c", "/", "f", "o", "o">>)
    /\ lastCall.options.allowFileSystemAccess
    /\ lastCall.result.isValid
    /\ lastCall.result.warnings = <<SensitiveWarning>>

\* C35: for every factory configuration and every environment, create returns
\* a real manager or a simulated one and throws nothing: a type of 'production'
\* or 'mock' is the manager's, otherwise forceProduction gives the real
\* manager, otherwise a test environment gives the simulated one
C35_CreateNeverFails ==
    lastCall.op = "create"
        => LET config == env.input.config
               processEnv == env.input.processEnv
           IN  /\ lastCall.returned \in {"EnhancedClaudeManager", "MockClaudeManager"}
               /\ lastCall.error = NoError
               /\ config.type = Some("production")
                      => lastCall.returned = "EnhancedClaudeManager"
               /\ config.type = Some("mock") => lastCall.returned = "MockClaudeManager"
               /\ (config.type \in {None, Some("auto")}
                       /\ config.forceProduction = Some(TRUE))
                      => lastCall.returned = "EnhancedClaudeManager"
               /\ (/\ config.type \in {None, Some("auto")}
                   /\ config.forceProduction # Some(TRUE)
                   /\ processEnv.NODE_ENV = Some("test"))
                      => lastCall.returned = "MockClaudeManager"

\* C36: executeCommand for a command that passes the sanitizer, with an id
\* whose record is completed, failed or killed, is accepted and starts a new
\* running record; the duplicate id error is raised only while the record of
\* the id is running
C36_TerminalIdAccepted ==
    [][\A id \in Ids :
          /\ lastCall'.op = "executeCommand" /\ lastCall'.id = id
          /\ ~isShuttingDown
          /\ sanitizeClaudeCommand(lastCall'.command.command, lastCall'.command.args,
                                   lastCall'.command.workingDirectory).isValid
          /\ id \in processes /\ claudeProcess[id].status \in Terminal
          => /\ lastCall'.returned = "pending"
             /\ lastCall'.error.kind # "duplicate"
             /\ claudeProcess'[id].status = "running"]_vars

\* the last call was an executeStreamingCommand rejected with the duplicate id
\* error
DuplicateStreamingRejected(call, id) ==
    /\ call.op = "executeStreamingCommand" /\ call.id = id
    /\ call.returned = "rejected"
    /\ call.error.kind = "duplicate"

\* C37: an executeStreamingCommand call rejected with the duplicate id error
\* leaves the stream, the buffer and the subscribers of the command in flight
\* with that id as they were, and the chunk that the child writes next is
\* delivered to the subscriber of that command
C37_DuplicateLeavesStream ==
    [][\A id \in Ids :
          /\ (DuplicateStreamingRejected(lastCall', id) /\ lastCall' # lastCall)
                => /\ isStreaming(outputStreamer, id) => isStreaming(outputStreamer', id)
                   /\ outputStreamer'.listeners = outputStreamer.listeners
                   /\ getBuffer(outputStreamer', id) = getBuffer(outputStreamer, id)
          /\ (/\ DuplicateStreamingRejected(lastCall, id)
              /\ calls[id].streaming /\ calls[id].state = "pending"
              /\ Len(childProcess'[id].stdout) > Len(childProcess[id].stdout))
                => /\ Len(emitted'[id]) = Len(emitted[id]) + 1
                   /\ Invoked(emitted'[id][Len(emitted'[id])],
                              formatProcessEvent("output", id)) >= 1]_vars

\* C38: the deadline timer of a record that is completed, failed or killed has
\* been cancelled or has fired; the timer fires only while the record is
\* running, so its SIGTERM and its rejection never come for a command whose
\* record is terminal, in particular not after killProcess returned true or
\* after the child exited
C38_NoTimerAfterTerminal ==
    /\ [](\A id \in processes :
             claudeProcess[id].status \in Terminal => calls[id].timer # "armed")
    /\ [][\A id \in processes :
             (calls[id].timer = "armed" /\ calls'[id].timer = "fired")
                => /\ claudeProcess[id].status = "running"
                   /\ childProcess[id].exit = None]_vars

\* C39: an exit event streamed for an id carries exit code 0 only if the child
\* of that id exited with code 0, and then the executeCommand call of the id
\* has resolved; the exit event of a child terminated by a signal, or of one
\* that exited with another code, carries a code other than 0 and its call has
\* been rejected
C39_ExitCodeIsChilds ==
    \A id \in Ids :
        \A k \in 1..Len(emitted[id]) :
            emitted[id][k].event.type = "exit"
                => IF emitted[id][k].event.exitCode = Some(0)
                   THEN /\ childProcess[id].exit = Some(<<Some(0), None>>)
                        /\ calls[id].state = "resolved"
                   ELSE /\ childProcess[id].exit # None
                        /\ childProcess[id].exit[1][1] = emitted[id][k].event.exitCode
                        /\ calls[id].state = "rejected"

\* C40: in the simulated manager killProcess on a record that is running
\* returns true and sets it killed, and a killed ClaudeProcess stays killed
\* whatever its executeCommand call does afterwards: the call does not set it
\* completed or failed (simulateFailure, the test helper that sets a record
\* failed, aside)
C40_MockKilledStays ==
    [][/\ \A id \in Ids :
             (/\ lastCall'.op = "killProcess" /\ lastCall'.id = id
              /\ id \in DOMAIN mock.processes
              /\ mock.objects[mock.processes[id]].status = "running")
                => /\ lastCall'.returned = "true"
                   /\ mock'.objects[mock.processes[id]].status = "killed"
       /\ \A ref \in 1..Len(mock.objects) :
             (mock.objects[ref].status = "killed" /\ lastCall'.op # "simulateFailure")
                => mock'.objects[ref].status = "killed"]_vars

====
